---- MODULE Spec2Model ----
(***************************************************************************)
(* Model of src/downloads_organizer.py: the seven synchronous file         *)
(* operations over a "downloads" tree (organize by type / by date, find    *)
(* duplicates, clean old files, folder stats, archive old files, extract   *)
(* archives), run against an explicit model of the file system.            *)
(*                                                                         *)
(* A file name is a record [base, tags, ext]: "a_1_2.png" is base "a",     *)
(* tags <<1, 2>>, ext ".png" (Path.stem is base plus tags, Path.suffix is  *)
(* ext).  A path is the sequence of names below the root; <<>> is the root *)
(* itself.  The file system maps every existing path to a node.            *)
(***************************************************************************)
EXTENDS Integers, Sequences, FiniteSets, Bags, TLC

VARIABLES
    fs,     \* the file system: [existing paths -> node]
    now,    \* the clock read by datetime.now()
    pc,     \* "idle" | "walk" | "groups" | "returned_ok" | "returned_err" | "raised"
    op,     \* the running (or last) call: [name, flag, days, arch]
    walk,   \* the position of path.rglob('*'): [todo, stack, cur]
    acc,    \* the call's local accumulators (the report payload once returned)
    hist,   \* history: the tree at the start of the call, and the previous call
    sw      \* the software service: database, registry, registry file, last result

vars == <<fs, now, pc, op, walk, acc, hist, sw>>

\* The variables of the downloads organizer.
fileVars == <<fs, now, pc, op, walk, acc, hist>>

(***************************************************************************)
(* Bounds of the model.                                                    *)
(***************************************************************************)
MaxFiles == 3      \* files in an initial tree
MaxCalls == 2      \* calls made in one behaviour
MaxTime == 4       \* modification times are 0 .. MaxTime; the clock starts there
MaxDays == 2       \* days_old arguments are 0 .. MaxDays
DayUnits == 2      \* clock units in one day (timedelta(days=1))
MonthUnits == 2    \* clock units in one calendar month

(***************************************************************************)
(* Names and paths.                                                        *)
(***************************************************************************)
Nm(b, e) == [base |-> b, tags |-> <<>>, ext |-> e]

NmK(b, k, e) == [base |-> b, tags |-> <<k>>, ext |-> e]

\* Path.stem as a name of its own (the extract directory of a container).
StemName(n) == [base |-> n.base, tags |-> n.tags, ext |-> ""]

\* f"{item.stem}_{counter}{item.suffix}"
WithCounter(n, k) == [base |-> n.base, tags |-> Append(n.tags, k), ext |-> n.ext]

Root == <<>>

Parent(p) == SubSeq(p, 1, Len(p) - 1)

NameOf(p) == p[Len(p)]

Child(d, n) == Append(d, n)

IsPrefix(d, p) == Len(d) <= Len(p) /\ SubSeq(p, 1, Len(d)) = d

\* item.relative_to(path): the path below the root is the model's path.
RelativeTo(p) == p

(***************************************************************************)
(* File contents: plain bytes, or a ZIP container with its entries in      *)
(* write order.                                                            *)
(***************************************************************************)
Bytes(b) == [zip |-> FALSE, bytes |-> b, entries |-> <<>>]

Zip(es) == [zip |-> TRUE, bytes |-> "", entries |-> es]

NoData == Bytes("")

ByteLen(b) == CASE b = "" -> 0 [] b = "x" -> 1 [] b = "y" -> 1 [] b = "zz" -> 2 [] OTHER -> 3

RECURSIVE SizeOf(_)
\* st_size: the length of the bytes; a container costs one unit of overhead
\* plus its (stored) entries.
SizeOf(c) ==
    IF c.zip
    THEN LET RECURSIVE Sum(_)
             Sum(i) == IF i = 0 THEN 0 ELSE SizeOf(c.entries[i].data) + Sum(i - 1)
         IN 1 + Sum(Len(c.entries))
    ELSE ByteLen(c.bytes)

(***************************************************************************)
(* Nodes.  perm is the permission the operations depend on: for a file,    *)
(* whether it can be opened for reading; for a directory, whether entries  *)
(* can be added to or removed from it.                                     *)
(***************************************************************************)
DirNode(w) == [kind |-> "dir", data |-> NoData, mtime |-> 0, perm |-> w]

FileNode(c, t, r) == [kind |-> "file", data |-> c, mtime |-> t, perm |-> r]

Exists(f, p) == p \in DOMAIN f

IsDir(f, p) == p \in DOMAIN f /\ f[p].kind = "dir"

IsFile(f, p) == p \in DOMAIN f /\ f[p].kind = "file"

\* A symbolic link to the regular file at path target.
LinkNode(target) ==
    [kind |-> "link", data |-> NoData, mtime |-> 0, perm |-> TRUE, to |-> target]

\* The path that open() and stat() reach from p: they follow a link.
Resolve(f, p) == IF f[p].kind = "link" THEN f[p].to ELSE p

\* item.is_file(): true for a regular file and for a link that leads to one.
is_file(f, p) == p \in DOMAIN f /\ IsFile(f, Resolve(f, p))

Files(f) == {p \in DOMAIN f : f[p].kind = "file"}

Dirs(f) == {p \in DOMAIN f : f[p].kind = "dir"}

Children(f, d) == {p \in DOMAIN f : Len(p) = Len(d) + 1 /\ Parent(p) = d}

\* Entries can be created in, or removed from, directory d.
Writable(f, d) == IsDir(f, d) /\ f[d].perm

Put(f, p, node) == [q \in DOMAIN f \cup {p} |-> IF q = p THEN node ELSE f[q]]

Remove(f, p) == [q \in DOMAIN f \ {p} |-> f[q]]

\* The multiset of (content, mtime) of the files of a tree.
FileBag(f) ==
    LET RECURSIVE B(_)
        B(S) == IF S = {} THEN EmptyBag
                ELSE LET p == CHOOSE q \in S : TRUE
                     IN B(S \ {p}) (+) SetToBag({<<f[p].data, f[p].mtime>>})
    IN B(Files(f))

(***************************************************************************)
(* The calendar and the clock.  Times are whole clock units; a day is      *)
(* DayUnits of them and a month MonthUnits, and time 0 falls in December   *)
(* 2023, so that the modification times of the model span two years.       *)
(* A clock unit is the resolution of datetime (a microsecond): the mtime   *)
(* of a node is the datetime that datetime.fromtimestamp(st_mtime) gives,  *)
(* which is st_mtime rounded to that resolution.                           *)
(***************************************************************************)
MonthNames ==
    << "01-January", "02-February", "03-March", "04-April", "05-May", "06-June",
       "07-July", "08-August", "09-September", "10-October", "11-November",
       "12-December" >>

MonthIndex(t) == 11 + (t \div MonthUnits)

\* mtime.strftime("%Y/%m-%B"), as the two path components below the root.
DateFolder(t) ==
    << Nm(ToString(2023 + (MonthIndex(t) \div 12)), ""),
       Nm(MonthNames[(MonthIndex(t) % 12) + 1], "") >>

\* datetime.now().strftime('%Y-%m-%d'): the day number stands for the date.
DateStamp(t) == "day" \o ToString(t \div DayUnits)

\* datetime.now() - timedelta(days=days_old)
Cutoff(t, days) == t - (days * DayUnits)

\* A cutoff that also takes the file modified exactly at it.
OlderOrEqual(t, cutoff) == t <= cutoff

\* mtime < cutoff_date
OlderThan(t, cutoff) == t < cutoff

(***************************************************************************)
(* The classifier.                                                         *)
(***************************************************************************)
FILE_CATEGORIES ==
    << <<"Images", {".jpg", ".jpeg", ".png", ".gif", ".bmp", ".svg", ".webp", ".ico"}>>,
       <<"Documents", {".pdf", ".doc", ".docx", ".txt", ".rtf", ".odt", ".xls", ".xlsx",
                       ".ppt", ".pptx"}>>,
       <<"Videos", {".mp4", ".avi", ".mkv", ".mov", ".wmv", ".flv", ".webm"}>>,
       <<"Audio", {".mp3", ".wav", ".flac", ".aac", ".ogg", ".m4a"}>>,
       <<"Archives", {".zip", ".rar", ".7z", ".tar", ".gz", ".bz2"}>>,
       <<"Code", {".py", ".js", ".java", ".cpp", ".c", ".html", ".css", ".json", ".xml",
                  ".sql"}>>,
       <<"Programs", {".exe", ".msi", ".dmg", ".deb", ".rpm", ".apk"}>>,
       <<"Other", {}>> >>

\* str.lower() on the extensions of the model: each pair is a lower-case
\* extension and one of its spellings with capital letters.
LetterCase ==
    { <<".jpg", ".JPG">>, <<".jpeg", ".JPEG">>, <<".png", ".PNG">>,
      <<".gif", ".GIF">>, <<".bmp", ".BMP">>, <<".svg", ".SVG">>,
      <<".webp", ".WEBP">>, <<".ico", ".ICO">>, <<".pdf", ".PDF">>,
      <<".doc", ".DOC">>, <<".docx", ".DOCX">>, <<".txt", ".TXT">>,
      <<".rtf", ".RTF">>, <<".odt", ".ODT">>, <<".xls", ".XLS">>,
      <<".xlsx", ".XLSX">>, <<".ppt", ".PPT">>, <<".pptx", ".PPTX">>,
      <<".mp4", ".MP4">>, <<".avi", ".AVI">>, <<".mkv", ".MKV">>,
      <<".mov", ".MOV">>, <<".wmv", ".WMV">>, <<".flv", ".FLV">>,
      <<".webm", ".WEBM">>, <<".mp3", ".MP3">>, <<".wav", ".WAV">>,
      <<".flac", ".FLAC">>, <<".aac", ".AAC">>, <<".ogg", ".OGG">>,
      <<".m4a", ".M4A">>, <<".zip", ".ZIP">>, <<".rar", ".RAR">>, <<".7z",
      ".7Z">>, <<".tar", ".TAR">>, <<".gz", ".GZ">>, <<".bz2", ".BZ2">>,
      <<".py", ".PY">>, <<".js", ".JS">>, <<".java", ".JAVA">>, <<".cpp",
      ".CPP">>, <<".c", ".C">>, <<".html", ".HTML">>, <<".css", ".CSS">>,
      <<".json", ".JSON">>, <<".xml", ".XML">>, <<".sql", ".SQL">>,
      <<".exe", ".EXE">>, <<".msi", ".MSI">>, <<".dmg", ".DMG">>,
      <<".deb", ".DEB">>, <<".rpm", ".RPM">>, <<".apk", ".APK">>,
      <<".png", ".Png">>, <<".zip", ".Zip">>, <<".xyz", ".XYZ">>,
      <<".bak", ".Bak">> }

\* str.lower(): a spelling with capital letters becomes the lower-case one,
\* any other extension of the model is lower-case already.
Lower(e) ==
    IF \E pr \in LetterCase : pr[2] = e
    THEN (CHOOSE pr \in LetterCase : pr[2] = e)[1]
    ELSE e

\* A classifier that looks the extension up as it is spelled.
get_category_as_spelled(n) ==
    LET ext == n.ext
        hits == {i \in 1..Len(FILE_CATEGORIES) : ext \in FILE_CATEGORIES[i][2]}
    IN IF hits = {} THEN "Other"
       ELSE FILE_CATEGORIES[CHOOSE i \in hits : \A j \in hits : i <= j][1]

\* get_category: the first category, in table order, that lists the extension.
get_category(n) ==
    LET ext == Lower(n.ext)
        hits == {i \in 1..Len(FILE_CATEGORIES) : ext \in FILE_CATEGORIES[i][2]}
    IN IF hits = {} THEN "Other"
       ELSE FILE_CATEGORIES[CHOOSE i \in hits : \A j \in hits : i <= j][1]

\* get_file_hash: the MD5 digest of the whole content, taken to be free of
\* collisions: the digest of a content is the content under the tag "md5".
get_file_hash(c) == <<"md5", c>>

(***************************************************************************)
(* Library calls on the file system.                                       *)
(***************************************************************************)
RECURSIVE CanMkdirP(_, _)
\* Path.mkdir(parents=True, exist_ok=True) succeeds: every component is, or
\* can be created as, a directory.
CanMkdirP(f, d) ==
    IF Exists(f, d) THEN IsDir(f, d)
    ELSE /\ d # Root
         /\ CanMkdirP(f, Parent(d))
         /\ (Exists(f, Parent(d)) => Writable(f, Parent(d)))

RECURSIVE MkdirP(_, _)
MkdirP(f, d) ==
    IF Exists(f, d) THEN f
    ELSE Put(MkdirP(f, Parent(d)), d, DirNode(TRUE))

\* Path.mkdir(exist_ok=True): the parent must exist.
CanMkdir(f, d) ==
    IF Exists(f, d) THEN IsDir(f, d)
    ELSE d # Root /\ Writable(f, Parent(d))

Mkdir(f, d) == IF Exists(f, d) THEN f ELSE Put(f, d, DirNode(TRUE))

\* Path.unlink
CanUnlink(f, p) == Exists(f, p) /\ f[p].kind # "dir" /\ Writable(f, Parent(p))

\* A rename that tries name and name_1 only.
FirstCounterOnly(f, dir, n, counter) ==
    IF Exists(f, Child(dir, n)) THEN WithCounter(n, 1) ELSE n

RECURSIVE FreeName(_, _, _, _)
\* The rename loop: the first of name, name_1, name_2, ... that does not exist
\* in the target directory (counter is the next suffix to try).
FreeName(f, dir, n, counter) ==
    LET cand == IF counter = 0 THEN n ELSE WithCounter(n, counter)
    IN IF Exists(f, Child(dir, cand)) THEN FreeName(f, dir, n, counter + 1) ELSE cand

\* shutil.move(src, dst) for a file src and a dst that does not exist:
\* os.rename, and when that fails copy2 followed by os.unlink(src).  The
\* result is the tree afterwards and whether the call returned normally.
ShutilMove(f, src, dst) ==
    IF Writable(f, Parent(src)) /\ Writable(f, Parent(dst))
    THEN [fs |-> Remove(Put(f, dst, f[src]), src), ok |-> TRUE]
    ELSE IF f[src].perm /\ Writable(f, Parent(dst))
         THEN IF CanUnlink(f, src)
              THEN [fs |-> Remove(Put(f, dst, f[src]), src), ok |-> TRUE]
              ELSE [fs |-> Put(f, dst, f[src]), ok |-> FALSE]
         ELSE [fs |-> f, ok |-> FALSE]

(***************************************************************************)
(* path.rglob('*') (pathlib, CPython 3.11): a lazy depth-first walk.  The  *)
(* entries of a directory are listed when the walk reaches it and yielded  *)
(* one by one in the order the system returns them (any order); when they  *)
(* are exhausted the directory is listed again for its subdirectories,     *)
(* which are then walked in turn.  Directory entries are yielded too, but   *)
(* every loop body skips them (item.is_file()), so todo keeps the others.  *)
(***************************************************************************)
Listing(f, d) == {p \in Children(f, d) : f[p].kind # "dir"}

Subdirs(f, d) == {p \in Children(f, d) : f[p].kind = "dir"}

RECURSIVE DropEmpty(_)
DropEmpty(st) ==
    IF st # <<>> /\ st[Len(st)] = {} THEN DropEmpty(SubSeq(st, 1, Len(st) - 1)) ELSE st

\* The directories still to walk once the current listing is exhausted.
Pending(f, w) == DropEmpty(Append(w.stack, Subdirs(f, w.cur)))

StartWalk(f) == [todo |-> Listing(f, Root), stack |-> <<>>, cur |-> Root]

NoWalk == [todo |-> {}, stack |-> <<>>, cur |-> Root]

WalkDone(f, w) == w.todo = {} /\ Pending(f, w) = <<>>

Yielded(w, item) == [w EXCEPT !.todo = @ \ {item}]

(***************************************************************************)
(* The state of a call.                                                    *)
(***************************************************************************)
EmptyAcc ==
    [ moved |-> <<>>,    \* moved_files, in order: [folder, name]
      errors |-> <<>>,   \* errors: the names of the files that failed
      groups |-> <<>>,   \* file_hashes, in insertion order: [digest, files]
      idx |-> 0,         \* the groups of file_hashes already gone through
      list |-> <<>>,     \* duplicates / old_files / archived_files / extracted
      size |-> 0,        \* space_saved / total_size
      cutoff |-> 0 ]     \* cutoff_date

Call(name, flag, days, arch) == [name |-> name, flag |-> flag, days |-> days, arch |-> arch]

NoCall == Call("none", FALSE, 0, <<>>)

\* The software service while only the file tools are called: the two
\* services share no state (downloads_organizer.py imports nothing of it).
NoService == [used |-> FALSE]

Ended == pc \in {"idle", "returned_ok", "returned_err", "raised"}

CanBegin == Ended /\ hist.calls < hist.limit

\* The archive call that returned just before this call, if one did: the
\* tree it started from, its container and the archived_files it reported.
NoArchive == [fs0 |-> <<>>, path |-> <<>>, files |-> <<>>]

\* What every call does first: the history is updated, the accumulators are
\* fresh.
Enter(o) ==
    /\ op' = o
    /\ hist' = [fs0 |-> fs,
                prev |-> [name |-> op.name, flag |-> op.flag, out |-> pc],
                arc |-> IF op.name = "archive_files" /\ pc = "returned_ok"
                        THEN [fs0 |-> hist.fs0, path |-> op.arch, files |-> acc.list]
                        ELSE NoArchive,
                calls |-> hist.calls + 1, limit |-> hist.limit]
    /\ UNCHANGED sw

\* A call that does not check the root.
RootNotChecked(f) == TRUE

\* path = get_downloads_path(downloads_path); if not path.exists(): return
\* {"ok": False, "error": ...}
RootExists(f) == Exists(f, Root)

PathMissing ==
    /\ pc' = "returned_err"
    /\ walk' = NoWalk
    /\ acc' = EmptyAcc
    /\ UNCHANGED <<fs, now>>

\* An exception leaves the function: its locals are gone.
Raised(f) ==
    /\ pc' = "raised"
    /\ walk' = NoWalk
    /\ acc' = EmptyAcc
    /\ fs' = f
    /\ now' = now

Skip(item) ==
    /\ walk' = Yielded(walk, item)
    /\ UNCHANGED <<fs, now, pc, op, acc, hist, sw>>

(***************************************************************************)
(* organize_by_type_sync and organize_by_date_sync.                        *)
(***************************************************************************)
OrganizeBegin(name, dry_run) ==
    /\ CanBegin
    /\ Enter(Call(name, dry_run, 0, <<>>))
    /\ IF ~RootExists(fs) THEN PathMissing
       ELSE /\ pc' = "walk"
            /\ walk' = StartWalk(fs)
            /\ acc' = EmptyAcc
            /\ UNCHANGED <<fs, now>>

OrganizeByTypeBegin(dry_run) == OrganizeBegin("organize_by_type", dry_run)

OrganizeByDateBegin(dry_run) == OrganizeBegin("organize_by_date", dry_run)

\* The name recorded in moved_files for a file that was moved to target.
ReportedName(item, target) == NameOf(item)

\* A run that ignores dry_run.
DryRunIgnored(o) == FALSE

\* if not dry_run: ... else: (report only)
DryRun(o) == o.flag

\* The loop body for one file that is not yet in target_dir; mkdirOk and
\* made are the outcome of target_dir.mkdir(...), which is outside the try.
MoveItem(item, target_dir, mkdirOk, made) ==
    IF DryRun(op)
    THEN /\ acc' = [acc EXCEPT !.moved =
                        Append(@, [folder |-> target_dir, name |-> NameOf(item)])]
         /\ walk' = Yielded(walk, item)
         /\ UNCHANGED <<fs, now, pc, op, hist, sw>>
    ELSE IF ~mkdirOk
    THEN Raised(fs) /\ UNCHANGED <<op, hist, sw>>
    ELSE LET target == Child(target_dir, FreeName(made, target_dir, NameOf(item), 0))
             m == ShutilMove(made, item, target)
         IN /\ fs' = m.fs
            /\ acc' = IF m.ok
                      THEN [acc EXCEPT !.moved =
                               Append(@, [folder |-> target_dir,
                                          name |-> ReportedName(item, target)])]
                      ELSE [acc EXCEPT !.errors = Append(@, NameOf(item))]
            /\ walk' = Yielded(walk, item)
            /\ UNCHANGED <<now, pc, op, hist, sw>>

\* A loop that takes every file, wherever it is.
NeverAlreadyIn(item, target_dir) == FALSE

\* A loop that makes the check in a real run only.
AlreadyInRealRunOnly(item, target_dir) == ~op.flag /\ Parent(item) = target_dir

\* if item.parent == target_dir: continue
AlreadyIn(item, target_dir) == Parent(item) = target_dir

OrganizeByTypeVisit ==
    /\ pc = "walk"
    /\ op.name = "organize_by_type"
    /\ \E item \in walk.todo :
          LET target_dir == Child(Root, Nm(get_category(NameOf(item)), ""))
          IN IF ~IsFile(fs, item) \/ AlreadyIn(item, target_dir)
             THEN Skip(item)
             ELSE MoveItem(item, target_dir, CanMkdir(fs, target_dir),
                           Mkdir(fs, target_dir))

OrganizeByDateVisit ==
    /\ pc = "walk"
    /\ op.name = "organize_by_date"
    /\ \E item \in walk.todo :
          IF ~IsFile(fs, item) THEN Skip(item)
          ELSE LET target_dir == Root \o DateFolder(fs[item].mtime)
               IN IF AlreadyIn(item, target_dir)
                  THEN Skip(item)
                  ELSE MoveItem(item, target_dir, CanMkdirP(fs, target_dir),
                                MkdirP(fs, target_dir))

(***************************************************************************)
(* find_duplicates_sync.                                                   *)
(***************************************************************************)
FindDuplicatesBegin(delete_duplicates) ==
    /\ CanBegin
    /\ Enter(Call("find_duplicates", delete_duplicates, 0, <<>>))
    /\ IF ~RootExists(fs) THEN PathMissing
       ELSE /\ pc' = "walk"
            /\ walk' = StartWalk(fs)
            /\ acc' = EmptyAcc
            /\ UNCHANGED <<fs, now>>

\* file_hashes[file_hash].append(item)
AddToGroup(groups, digest, item) ==
    IF \E i \in 1..Len(groups) : groups[i].digest = digest
    THEN [i \in 1..Len(groups) |->
             IF groups[i].digest = digest
             THEN [groups[i] EXCEPT !.files = Append(@, item)]
             ELSE groups[i]]
    ELSE Append(groups, [digest |-> digest, files |-> <<item>>])

\* The first loop: a file that cannot be opened for hashing is skipped.
FindDuplicatesVisit ==
    /\ pc = "walk"
    /\ op.name = "find_duplicates"
    /\ \E item \in walk.todo :
          IF ~is_file(fs, item) \/ ~fs[Resolve(fs, item)].perm
          THEN Skip(item)
          ELSE /\ acc' = [acc EXCEPT !.groups =
                              AddToGroup(@, get_file_hash(fs[Resolve(fs, item)].data),
                                         item)]
               /\ walk' = Yielded(walk, item)
               /\ UNCHANGED <<fs, now, pc, op, hist, sw>>

FindDuplicatesScanDone ==
    /\ pc = "walk"
    /\ op.name = "find_duplicates"
    /\ WalkDone(fs, walk)
    /\ pc' = "groups"
    /\ walk' = NoWalk
    /\ UNCHANGED <<fs, now, op, acc, hist, sw>>

\* A sort without reverse=True: oldest first.
InsertOldestFirst(f, sorted, p) ==
    LET before == {i \in 1..Len(sorted) :
                      f[Resolve(f, sorted[i])].mtime <= f[Resolve(f, p)].mtime}
        k == IF before = {} THEN 0 ELSE CHOOSE i \in before : \A j \in before : j <= i
    IN SubSeq(sorted, 1, k) \o <<p>> \o SubSeq(sorted, k + 1, Len(sorted))

\* The place of a file in the sorted list: files.sort(key=mtime, reverse=True)
\* is stable, so a file goes after every file that is at least as new.
InsertByMtime(f, sorted, p) ==
    LET before == {i \in 1..Len(sorted) :
                      f[Resolve(f, sorted[i])].mtime >= f[Resolve(f, p)].mtime}
        k == IF before = {} THEN 0 ELSE CHOOSE i \in before : \A j \in before : j <= i
    IN SubSeq(sorted, 1, k) \o <<p>> \o SubSeq(sorted, k + 1, Len(sorted))

RECURSIVE SortNewestFirst(_, _)
SortNewestFirst(f, files) ==
    IF files = <<>> THEN <<>>
    ELSE InsertByMtime(f, SortNewestFirst(f, SubSeq(files, 1, Len(files) - 1)),
                       files[Len(files)])

\* keep_file = files[0]
KeepFile(f, files) == SortNewestFirst(f, files)[1]

\* duplicate_files = files[1:]
DuplicateFiles(f, files) == Tail(SortNewestFirst(f, files))

RECURSIVE UnlinkUntilFailure(_, _)
\* A loop that the first failing dup.unlink() ends.
UnlinkUntilFailure(f, files) ==
    IF files = <<>> \/ ~CanUnlink(f, Head(files)) THEN f
    ELSE UnlinkUntilFailure(Remove(f, Head(files)), Tail(files))

RECURSIVE UnlinkAll(_, _)
\* try: dup.unlink() except Exception: pass, for each file in turn.
UnlinkAll(f, files) ==
    IF files = <<>> THEN f
    ELSE UnlinkAll(IF CanUnlink(f, Head(files)) THEN Remove(f, Head(files)) ELSE f,
                   Tail(files))

\* dup.stat().st_size: the size of the file that dup leads to.
StatSize(f, p) == SizeOf(f[Resolve(f, p)].data)

RECURSIVE TotalSize(_, _)
TotalSize(f, files) ==
    IF files = <<>> THEN 0 ELSE StatSize(f, Head(files)) + TotalSize(f, Tail(files))

\* The tree when the loop over duplicate_files reaches its i-th file.
TreeAt(f, dups, delete, i) == IF delete THEN UnlinkAll(f, SubSeq(dups, 1, i - 1)) ELSE f

\* size = dup.stat().st_size is outside the try: the first file of
\* duplicate_files whose stat() fails, because it is a link to a file that
\* the loop has already removed, ends the call (0: none does).
FirstDangling(f, dups, delete) ==
    LET failing == {i \in 1..Len(dups) :
                      ~Exists(TreeAt(f, dups, delete, i), Resolve(f, dups[i]))}
    IN IF failing = {} THEN 0 ELSE CHOOSE i \in failing : \A j \in failing : i <= j

\* The second loop, one group of file_hashes (in insertion order) at a step.
FindDuplicatesGroup ==
    /\ pc = "groups"
    /\ acc.idx < Len(acc.groups)
    /\ LET files == acc.groups[acc.idx + 1].files
           keep == KeepFile(fs, files)
           dups == DuplicateFiles(fs, files)
           k == FirstDangling(fs, dups, op.flag)
       IN IF Len(files) > 1 /\ k > 0
          THEN Raised(TreeAt(fs, dups, op.flag, k))
          ELSE /\ IF Len(files) > 1
                  THEN /\ acc' = [acc EXCEPT
                                    !.idx = @ + 1,
                                    !.list = @ \o [i \in 1..Len(dups) |->
                                                     [file |-> RelativeTo(dups[i]),
                                                      size |-> StatSize(fs, dups[i]),
                                                      original |-> RelativeTo(keep)]],
                                    !.size = @ + TotalSize(fs, dups)]
                       /\ fs' = IF op.flag THEN UnlinkAll(fs, dups) ELSE fs
                  ELSE /\ acc' = [acc EXCEPT !.idx = @ + 1]
                       /\ fs' = fs
               /\ UNCHANGED <<now, pc, walk>>
    /\ UNCHANGED <<op, hist, sw>>

FindDuplicatesReturn ==
    /\ pc = "groups"
    /\ acc.idx = Len(acc.groups)
    /\ pc' = "returned_ok"
    /\ UNCHANGED <<fs, now, op, walk, acc, hist, sw>>

(***************************************************************************)
(* clean_old_files_sync.                                                   *)
(***************************************************************************)
CleanOldFilesBegin(days_old, delete) ==
    /\ CanBegin
    /\ Enter(Call("clean_old_files", delete, days_old, <<>>))
    /\ IF ~RootExists(fs) THEN PathMissing
       ELSE /\ pc' = "walk"
            /\ walk' = StartWalk(fs)
            /\ acc' = [EmptyAcc EXCEPT !.cutoff = Cutoff(now, days_old)]
            /\ UNCHANGED <<fs, now>>

CleanOldFilesVisit ==
    /\ pc = "walk"
    /\ op.name = "clean_old_files"
    /\ \E item \in walk.todo :
          IF ~IsFile(fs, item) \/ ~OlderThan(fs[item].mtime, acc.cutoff)
          THEN Skip(item)
          ELSE /\ acc' = [acc EXCEPT
                            !.list = Append(@, [file |-> RelativeTo(item),
                                                age_days |-> (now - fs[item].mtime)
                                                                 \div DayUnits,
                                                size |-> SizeOf(fs[item].data)]),
                            !.size = @ + SizeOf(fs[item].data)]
               /\ fs' = IF op.flag /\ CanUnlink(fs, item) THEN Remove(fs, item) ELSE fs
               /\ walk' = Yielded(walk, item)
               /\ UNCHANGED <<now, pc, op, hist, sw>>

(***************************************************************************)
(* get_stats_sync: every file is counted with its size and category (the   *)
(* report derives its totals and its largest files from that list).        *)
(***************************************************************************)
GetStatsBegin ==
    /\ CanBegin
    /\ Enter(Call("get_stats", FALSE, 0, <<>>))
    /\ IF ~RootExists(fs) THEN PathMissing
       ELSE /\ pc' = "walk"
            /\ walk' = StartWalk(fs)
            /\ acc' = EmptyAcc
            /\ UNCHANGED <<fs, now>>

GetStatsVisit ==
    /\ pc = "walk"
    /\ op.name = "get_stats"
    /\ \E item \in walk.todo :
          IF ~IsFile(fs, item) THEN Skip(item)
          ELSE /\ acc' = [acc EXCEPT
                            !.list = Append(@, [file |-> RelativeTo(item),
                                                size |-> SizeOf(fs[item].data),
                                                category |-> get_category(NameOf(item))]),
                            !.size = @ + SizeOf(fs[item].data)]
               /\ walk' = Yielded(walk, item)
               /\ UNCHANGED <<fs, now, pc, op, hist, sw>>

(***************************************************************************)
(* archive_files_sync.                                                     *)
(***************************************************************************)
\* archive_name, or f"archive_{date}.zip" when none is given.
ArchiveName(archive_name, t) ==
    IF archive_name = <<>> THEN <<Nm("archive_" \o DateStamp(t), ".zip")>>
    ELSE archive_name

\* zipfile.ZipFile(archive_path, 'w'): the file is created, or truncated.
CanCreate(f, p) ==
    /\ p # Root
    /\ IsDir(f, Parent(p))
    /\ ~IsDir(f, p)
    /\ (Exists(f, p) \/ Writable(f, Parent(p)))

\* zipf.write(item, arcname) reads the file.
CanRead(f, p) == IsFile(f, p) /\ f[p].perm

ZipWrite(f, archive_path, arcname, data, t) ==
    [f EXCEPT ![archive_path] =
        FileNode(Zip(Append(@.data.entries, [name |-> arcname, data |-> data])), t, TRUE)]

ArchiveFilesBegin(days_old, archive_name) ==
    /\ CanBegin
    /\ LET archive_path == Root \o ArchiveName(archive_name, now)
       IN /\ Enter(Call("archive_files", FALSE, days_old, archive_path))
          /\ IF ~RootExists(fs) THEN PathMissing
             ELSE IF ~CanCreate(fs, archive_path) THEN Raised(fs)
             ELSE LET f1 == Put(fs, archive_path, FileNode(Zip(<<>>), now, TRUE))
                  IN /\ fs' = f1
                     /\ pc' = "walk"
                     /\ walk' = StartWalk(f1)
                     /\ acc' = [EmptyAcc EXCEPT !.cutoff = Cutoff(now, days_old)]
                     /\ now' = now

\* A body that unlinks the file whether or not it was written.
ArchiveItemUnlinkAnyway(f, a, archive_path, item, t) ==
    IF ~CanRead(f, item)
    THEN [fs |-> IF CanUnlink(f, item) THEN Remove(f, item) ELSE f, acc |-> a]
    ELSE LET f1 == ZipWrite(f, archive_path, RelativeTo(item), f[item].data, t)
             a1 == [a EXCEPT !.list = Append(@, RelativeTo(item)),
                             !.size = @ + SizeOf(f[item].data)]
         IN [fs |-> IF CanUnlink(f1, item) THEN Remove(f1, item) ELSE f1, acc |-> a1]

\* The body of the try for one old file: the tree and the accumulators after
\* zipf.write, the bookkeeping and item.unlink(), whichever of them raises.
ArchiveItem(f, a, archive_path, item, t) ==
    IF ~CanRead(f, item) THEN [fs |-> f, acc |-> a]
    ELSE LET f1 == ZipWrite(f, archive_path, RelativeTo(item), f[item].data, t)
             a1 == [a EXCEPT !.list = Append(@, RelativeTo(item)),
                             !.size = @ + SizeOf(f[item].data)]
         IN [fs |-> IF CanUnlink(f1, item) THEN Remove(f1, item) ELSE f1, acc |-> a1]

ArchiveFilesVisit ==
    /\ pc = "walk"
    /\ op.name = "archive_files"
    /\ \E item \in walk.todo :
          IF \/ ~IsFile(fs, item)
             \/ item = op.arch
             \/ ~OlderThan(fs[item].mtime, acc.cutoff)
          THEN Skip(item)
          ELSE LET r == ArchiveItem(fs, acc, op.arch, item, now)
               IN /\ fs' = r.fs
                  /\ acc' = r.acc
                  /\ walk' = Yielded(walk, item)
                  /\ UNCHANGED <<now, pc, op, hist, sw>>

(***************************************************************************)
(* extract_archives_sync.                                                  *)
(***************************************************************************)
ExtractArchivesBegin(delete_after) ==
    /\ CanBegin
    /\ Enter(Call("extract_archives", delete_after, 0, <<>>))
    /\ IF ~RootExists(fs) THEN PathMissing
       ELSE /\ pc' = "walk"
            /\ walk' = StartWalk(fs)
            /\ acc' = EmptyAcc
            /\ UNCHANGED <<fs, now>>

\* One member can be written below the extract directory: the directories
\* above it exist or can be made, and the target is not a directory.
CanExtract(f, target) ==
    /\ CanMkdirP(f, Parent(target))
    /\ ~IsDir(f, target)
    /\ (Exists(f, target) \/ Writable(MkdirP(f, Parent(target)), Parent(target)))

RECURSIVE ExtractAll(_, _, _, _)
\* zip_ref.extractall(extract_dir): the members in order, each replacing a
\* file already there; the first failure ends it, leaving what was written.
ExtractAll(f, extract_dir, entries, t) ==
    IF entries = <<>> THEN [fs |-> f, ok |-> TRUE]
    ELSE LET target == extract_dir \o Head(entries).name
         IN IF ~CanExtract(f, target) THEN [fs |-> f, ok |-> FALSE]
            ELSE ExtractAll(Put(MkdirP(f, Parent(target)), target,
                                FileNode(Head(entries).data, t, TRUE)),
                            extract_dir, Tail(entries), t)

\* An extract directory that is the container's own directory.
ExtractBeside(item) == Parent(item)

\* item.parent / item.stem
ExtractDir(item) == Child(Parent(item), StemName(NameOf(item)))

\* item.suffix.lower() == '.zip'
IsContainerName(n) == Lower(n.ext) = ".zip"

\* A body that removes the container with delete_after, expanded or not.
ExtractItemRemoveAnyway(f, a, item, delete_after, t) ==
    LET bad == ~(CanRead(f, item) /\ f[item].data.zip)
        x == IF bad THEN [fs |-> f, ok |-> FALSE]
             ELSE ExtractAll(f, ExtractDir(item), f[item].data.entries, t)
        a1 == IF x.ok
              THEN [a EXCEPT !.list = Append(@, [archive |-> RelativeTo(item),
                                                 extracted_to |->
                                                     RelativeTo(ExtractDir(item))])]
              ELSE [a EXCEPT !.errors = Append(@, NameOf(item))]
    IN [fs |-> IF delete_after /\ CanUnlink(x.fs, item) THEN Remove(x.fs, item) ELSE x.fs,
        acc |-> a1]

\* The body of the try for one container.
ExtractItem(f, a, item, delete_after, t) ==
    IF ~(CanRead(f, item) /\ f[item].data.zip)
    THEN [fs |-> f, acc |-> [a EXCEPT !.errors = Append(@, NameOf(item))]]
    ELSE LET x == ExtractAll(f, ExtractDir(item), f[item].data.entries, t)
             a1 == [a EXCEPT !.list = Append(@, [archive |-> RelativeTo(item),
                                                 extracted_to |->
                                                     RelativeTo(ExtractDir(item))])]
         IN IF ~x.ok
            THEN [fs |-> x.fs, acc |-> [a EXCEPT !.errors = Append(@, NameOf(item))]]
            ELSE IF ~delete_after THEN [fs |-> x.fs, acc |-> a1]
            ELSE IF CanUnlink(x.fs, item) THEN [fs |-> Remove(x.fs, item), acc |-> a1]
            ELSE [fs |-> x.fs, acc |-> [a1 EXCEPT !.errors = Append(@, NameOf(item))]]

ExtractArchivesVisit ==
    /\ pc = "walk"
    /\ op.name = "extract_archives"
    /\ \E item \in walk.todo :
          IF ~IsFile(fs, item) \/ ~IsContainerName(NameOf(item))
          THEN Skip(item)
          ELSE LET r == ExtractItem(fs, acc, item, op.flag, now)
               IN /\ fs' = r.fs
                  /\ acc' = r.acc
                  /\ walk' = Yielded(walk, item)
                  /\ UNCHANGED <<now, pc, op, hist, sw>>

(***************************************************************************)
(* The walk moves on to the next directory; the call returns its report.   *)
(***************************************************************************)
NextDir ==
    /\ pc = "walk"
    /\ walk.todo = {}
    /\ LET st == Pending(fs, walk)
       IN /\ st # <<>>
          /\ \E d \in st[Len(st)] :
                walk' = [todo |-> Listing(fs, d),
                         stack |-> [st EXCEPT ![Len(st)] = @ \ {d}],
                         cur |-> d]
    /\ UNCHANGED <<fs, now, pc, op, acc, hist, sw>>

Return ==
    /\ pc = "walk"
    /\ op.name # "find_duplicates"
    /\ WalkDone(fs, walk)
    /\ pc' = "returned_ok"
    /\ walk' = NoWalk
    /\ UNCHANGED <<fs, now, op, acc, hist, sw>>

(***************************************************************************)
(* Initial trees: up to MaxFiles files chosen among the given slots, each  *)
(* with attributes from attrs, below directories of which those in locked  *)
(* are read-only.                                                          *)
(***************************************************************************)
Prefixes(p) == {SubSeq(p, 1, k) : k \in 0..(Len(p) - 1)}

TreeOf(S, a, locked) ==
    LET dirs == {Root} \cup UNION {Prefixes(p) : p \in S}
    IN [p \in dirs \cup S |->
          IF p \in S THEN FileNode(a[p].data, a[p].mtime, a[p].perm)
          ELSE DirNode(p \notin locked)]

Choices(slots) ==
    {S \in SUBSET slots :
        /\ Cardinality(S) <= MaxFiles
        /\ \A p, q \in S : p # q => ~IsPrefix(p, q)}

IsTree(f, slots, attrs, lockable) ==
    \E S \in Choices(slots) :
       \E a \in [S -> attrs] :
          \E locked \in SUBSET (lockable \cap UNION {Prefixes(p) : p \in S}) :
             f = TreeOf(S, a, locked)

MissingRoot == <<>>

RootIsFile == [p \in {Root} |-> FileNode(Bytes("x"), 0, TRUE)]

InitCall(limit) ==
    /\ now = MaxTime
    /\ pc = "idle"
    /\ op = NoCall
    /\ walk = NoWalk
    /\ acc = EmptyAcc
    /\ hist = [fs0 |-> fs, prev |-> [name |-> "none", flag |-> FALSE, out |-> "none"],
               arc |-> NoArchive, calls |-> 0, limit |-> limit]
    /\ sw = NoService

(***************************************************************************)
(* The organizers, on trees with colliding names, a file named like a      *)
(* category folder and a read-only directory.                              *)
(***************************************************************************)
Sub == <<Nm("sub", "")>>

ImagesDir == <<Nm("Images", "")>>

OrganizeSlots ==
    { <<Nm("a", ".png")>>,
      Child(Sub, Nm("a", ".png")),
      Child(ImagesDir, Nm("a", ".png")),
      Child(ImagesDir, NmK("a", 1, ".png")),
      Child(Sub, Nm("b", ".txt")),
      <<Nm("Images", "")>> }

OrganizeAttrs ==
    { [data |-> Bytes("x"), mtime |-> 0, perm |-> TRUE],
      [data |-> Bytes("y"), mtime |-> MaxTime, perm |-> TRUE] }

InitOrganize ==
    /\ \/ IsTree(fs, OrganizeSlots, OrganizeAttrs, {Sub})
       \/ fs = MissingRoot
       \/ fs = RootIsFile
    /\ InitCall(MaxCalls)

NextOrganize ==
    \/ \E dry_run \in BOOLEAN : OrganizeByTypeBegin(dry_run)
    \/ \E dry_run \in BOOLEAN : OrganizeByDateBegin(dry_run)
    \/ OrganizeByTypeVisit
    \/ OrganizeByDateVisit
    \/ NextDir
    \/ Return

SpecOrganize == InitOrganize /\ [][NextOrganize]_vars

(***************************************************************************)
(* The cleanup scans, on trees with equal contents, equal and different    *)
(* modification times, an unreadable file and a read-only directory.       *)
(***************************************************************************)
CleanupSlots ==
    { <<Nm("a", ".txt")>>, <<Nm("b", ".txt")>>, Child(Sub, Nm("a", ".txt")) }

CleanupAttrs ==
    [data : {Bytes("x"), Bytes("zz")}, mtime : {0, 1, MaxTime}, perm : BOOLEAN]

InitCleanup ==
    /\ IsTree(fs, CleanupSlots, CleanupAttrs, {Sub})
    /\ InitCall(1)

NextCleanup ==
    \/ \E delete_duplicates \in BOOLEAN : FindDuplicatesBegin(delete_duplicates)
    \/ FindDuplicatesVisit
    \/ FindDuplicatesScanDone
    \/ FindDuplicatesGroup
    \/ FindDuplicatesReturn
    \/ \E days_old \in 0..MaxDays, delete \in BOOLEAN : CleanOldFilesBegin(days_old, delete)
    \/ CleanOldFilesVisit
    \/ GetStatsBegin
    \/ GetStatsVisit
    \/ NextDir
    \/ Return

SpecCleanup == InitCleanup /\ [][NextCleanup]_vars

(***************************************************************************)
(* Archiving and extracting, on trees with old and recent files, a file    *)
(* named like the extract directory, an unreadable file and a read-only    *)
(* directory; the container gets a given name, with or without ".zip", a   *)
(* name inside the directory sub (which may be missing or read-only), or   *)
(* the default one.                                                        *)
(***************************************************************************)
ArchiveSlots ==
    { <<Nm("o", ".txt")>>, Child(Sub, Nm("o", ".txt")), <<Nm("bk", "")>> }

ArchiveAttrs ==
    { [data |-> Bytes("x"), mtime |-> 0, perm |-> TRUE],
      [data |-> Bytes("zz"), mtime |-> 0, perm |-> TRUE],
      [data |-> Bytes("x"), mtime |-> MaxTime, perm |-> TRUE],
      [data |-> Bytes("x"), mtime |-> 0, perm |-> FALSE] }

ArchiveNames ==
    { <<>>, <<Nm("bk", ".zip")>>, <<Nm("bk", "")>>, Child(Sub, Nm("bk", ".zip")) }

InitArchive ==
    /\ IsTree(fs, ArchiveSlots, ArchiveAttrs, {Sub})
    /\ InitCall(MaxCalls)

NextArchive ==
    \/ \E days_old \in 0..MaxDays, archive_name \in ArchiveNames :
          ArchiveFilesBegin(days_old, archive_name)
    \/ ArchiveFilesVisit
    \/ \E delete_after \in BOOLEAN : ExtractArchivesBegin(delete_after)
    \/ ExtractArchivesVisit
    \/ NextDir
    \/ Return

SpecArchive == InitArchive /\ [][NextArchive]_vars

(***************************************************************************)
(* Every operation, on a missing root, a root that is a regular file, and  *)
(* small trees.                                                            *)
(***************************************************************************)
SmallSlots == { <<Nm("a", ".png")>>, Child(Sub, Nm("a", ".png")), <<Nm("old", ".zip")>> }

SmallAttrs ==
    [data : {Bytes("x"), Zip(<<[name |-> <<Nm("m", ".txt")>>, data |-> Bytes("y")]>>)},
     mtime : {Cutoff(MaxTime, 1) - 1, Cutoff(MaxTime, 1), MaxTime}, perm : {TRUE}]

Init ==
    /\ \/ IsTree(fs, SmallSlots, SmallAttrs, {})
       \/ fs = MissingRoot
       \/ fs = RootIsFile
    /\ InitCall(1)

Next ==
    \/ \E dry_run \in BOOLEAN : OrganizeByTypeBegin(dry_run)
    \/ \E dry_run \in BOOLEAN : OrganizeByDateBegin(dry_run)
    \/ OrganizeByTypeVisit
    \/ OrganizeByDateVisit
    \/ \E delete_duplicates \in BOOLEAN : FindDuplicatesBegin(delete_duplicates)
    \/ FindDuplicatesVisit
    \/ FindDuplicatesScanDone
    \/ FindDuplicatesGroup
    \/ FindDuplicatesReturn
    \/ \E days_old \in 0..MaxDays, delete \in BOOLEAN : CleanOldFilesBegin(days_old, delete)
    \/ CleanOldFilesVisit
    \/ GetStatsBegin
    \/ GetStatsVisit
    \/ \E days_old \in 0..MaxDays, archive_name \in ArchiveNames :
          ArchiveFilesBegin(days_old, archive_name)
    \/ ArchiveFilesVisit
    \/ \E delete_after \in BOOLEAN : ExtractArchivesBegin(delete_after)
    \/ ExtractArchivesVisit
    \/ NextDir
    \/ Return

Spec == Init /\ [][Next]_vars

\* Every path but the root lies in a directory.
WellFormed == \A p \in DOMAIN fs : p # Root => IsDir(fs, Parent(p))

(***************************************************************************)
(* Properties.                                                             *)
(***************************************************************************)
Organizers == {"organize_by_type", "organize_by_date"}

SeqRange(q) == {q[i] : i \in 1..Len(q)}

RECURSIVE SumSizes(_, _)
SumSizes(f, S) ==
    IF S = {} THEN 0
    ELSE LET p == CHOOSE q \in S : TRUE
         IN SizeOf(f[p].data) + SumSizes(f, S \ {p})

\* The files below the root.
Under(f) == Files(f) \ {Root}

\* The folder an organizer files p under.
TargetOf(f, p) ==
    IF op.name = "organize_by_type"
    THEN Child(Root, Nm(get_category(NameOf(p)), ""))
    ELSE Root \o DateFolder(f[p].mtime)

WouldMove(f) == {p \in Under(f) : Parent(p) # TargetOf(f, p)}

\* The files find_duplicates can hash, and those with the content of p.
Hashable(f) == {p \in Under(f) : f[p].perm}

SameContent(f, p) == {q \in Hashable(f) : f[q].data = f[p].data}

Contents(f) == {f[p].data : p \in Hashable(f)}

ReadOnlyCall ==
    \/ op.name \in Organizers /\ op.flag
    \/ op.name \in {"find_duplicates", "clean_old_files"} /\ ~op.flag

ReportListsCandidates ==
    CASE op.name \in Organizers ->
            /\ Len(acc.moved) = Cardinality(WouldMove(fs))
            /\ \A p \in WouldMove(fs) :
                  [folder |-> TargetOf(fs, p), name |-> NameOf(p)] \in SeqRange(acc.moved)
      [] op.name = "find_duplicates" ->
            /\ Len(acc.list) = Cardinality(Hashable(fs)) - Cardinality(Contents(fs))
            /\ \A i \in 1..Len(acc.list) : acc.list[i].file \in Hashable(fs)
      [] op.name = "clean_old_files" ->
            /\ Len(acc.list) = Cardinality({acc.list[i].file : i \in 1..Len(acc.list)})
            /\ {acc.list[i].file : i \in 1..Len(acc.list)}
                  = {p \in Under(fs) : fs[p].mtime < now - (op.days * DayUnits)}
      [] OTHER -> TRUE

\* C1: a call in a read-only mode (organize by type or by date with
\* dry_run, find_duplicates or clean_old_files without delete) leaves the
\* tree (directories, files, contents, modification times) as it was at
\* every point of the call, and its report lists the files that would be
\* moved or deleted.
C1_ReadOnlyModes ==
    ReadOnlyCall =>
        /\ fs = hist.fs0
        /\ pc # "raised"
        /\ (pc = "returned_ok" => ReportListsCandidates)

C1_Witness ==
    /\ pc = "returned_ok"
    /\ op.name = "organize_by_type"
    /\ op.flag
    /\ Len(acc.moved) >= 2
    /\ fs = hist.fs0

\* C9: called on a root that does not exist, every operation returns the
\* failure envelope at once, with no payload, and creates, moves and deletes
\* nothing.
C9_MissingRootFails ==
    (hist.calls > 0 /\ ~Exists(hist.fs0, Root)) =>
        /\ pc = "returned_err"
        /\ acc = EmptyAcc
        /\ walk = NoWalk
        /\ fs = hist.fs0

C9_Witness ==
    /\ hist.calls > 0
    /\ ~Exists(hist.fs0, Root)
    /\ op.name = "archive_files"
    /\ pc = "returned_err"
    /\ fs = MissingRoot

\* C10: called on a root that exists but is a regular file, every
\* operation ends with the failure envelope, as for a missing root.
C10_RootFileFails ==
    (hist.calls > 0 /\ IsFile(hist.fs0, Root) /\ Ended) => pc = "returned_err"

Listed == {acc.list[i].file : i \in 1..Len(acc.list)}

\* C5: clean_old_files and archive_files select a file if and only if its
\* modification time (a datetime, one clock unit being its resolution) is
\* strictly earlier than now - days_old; a file exactly at the cutoff is not
\* selected and a file one unit older is: the files
\* clean_old_files reports, and those archive_files writes (of the files it
\* can read, the container aside), are exactly those.
C5_StrictCutoff ==
    pc = "returned_ok" =>
        /\ op.name = "clean_old_files" =>
              Listed = {p \in Under(hist.fs0) :
                           hist.fs0[p].mtime < now - (op.days * DayUnits)}
        /\ op.name = "archive_files" =>
              SeqRange(acc.list) =
                  {p \in Under(hist.fs0) \ {op.arch} :
                      /\ hist.fs0[p].perm
                      /\ hist.fs0[p].mtime < now - (op.days * DayUnits)}

C5_Witness ==
    /\ pc = "returned_ok"
    /\ op.name = "clean_old_files"
    /\ \E p, q \in Under(hist.fs0) :
          /\ hist.fs0[p].mtime = now - (op.days * DayUnits)
          /\ hist.fs0[q].mtime = now - (op.days * DayUnits) - 1
          /\ p \notin Listed
          /\ q \in Listed

\* A real run of an organizer that follows a real run of the same organizer
\* which returned its report.
SecondRun ==
    /\ op.name \in Organizers
    /\ ~op.flag
    /\ hist.prev.name = op.name
    /\ ~hist.prev.flag
    /\ hist.prev.out = "returned_ok"

\* C2: when a real run of an organizer has returned, a second real run of
\* the same organizer on the resulting tree moves nothing (total_files is 0)
\* and leaves the tree unchanged.
C2_SecondRunMovesNothing ==
    (SecondRun /\ pc = "returned_ok") =>
        /\ Len(acc.moved) = 0
        /\ fs = hist.fs0

\* The part of C2 that the code keeps: a file the first run filed, or found
\* in place, is not moved by the second one.
C2_SecondRunReportsNothing ==
    (SecondRun /\ pc = "returned_ok") => Len(acc.moved) = 0

\* C3: an organizer never overwrites or drops a file: every file present
\* before the call is present after it with the same content, and the
\* number of files is the same before and after.
C3_CollisionSafety ==
    (op.name \in Organizers /\ hist.calls > 0) =>
        /\ FileBag(hist.fs0) \sqsubseteq FileBag(fs)
        /\ Cardinality(Files(fs)) = Cardinality(Files(hist.fs0))

\* The part of C3 that the code keeps: no file is overwritten or dropped.
C3_NothingLost ==
    (op.name \in Organizers /\ hist.calls > 0) =>
        FileBag(hist.fs0) \sqsubseteq FileBag(fs)

Pos(q, x) == CHOOSE i \in 1..Len(q) : q[i] = x

RECURSIVE ReportedSize(_, _)
ReportedSize(f, list) ==
    IF list = <<>> THEN 0
    ELSE SizeOf(f[Head(list).file].data) + ReportedSize(f, Tail(list))

\* The files of one group of equal content, in the order the scan met them.
ElectionIn(f, files) ==
    LET members == SeqRange(files)
        reported == {i \in 1..Len(acc.list) : acc.list[i].file \in members}
    IN /\ members = SameContent(f, files[1])
       /\ Len(files) = Cardinality(members)
       /\ Cardinality(reported) = Cardinality(members) - 1
       /\ \E o \in members :
             /\ \A i \in reported :
                   acc.list[i].original = o /\ acc.list[i].file # o
             /\ \A q \in members : f[q].mtime <= f[o].mtime
             /\ \A j \in 1..Len(files) :
                   f[files[j]].mtime = f[o].mtime => Pos(files, o) <= j

\* C4: find_duplicates groups the files it can hash by content; for a group
\* of n files it reports n - 1 of them, each with the newest member of the
\* group as its original (of several newest, the one the scan met first),
\* never the original itself, and space_saved is the sum of the sizes of the
\* reported files.
C4_DuplicateElection ==
    (pc = "returned_ok" /\ op.name = "find_duplicates") =>
        /\ \A g \in 1..Len(acc.groups) : ElectionIn(hist.fs0, acc.groups[g].files)
        /\ \A p \in Hashable(hist.fs0) :
              \E g \in 1..Len(acc.groups) : p \in SeqRange(acc.groups[g].files)
        /\ \A i \in 1..Len(acc.list) :
              acc.list[i].size = SizeOf(hist.fs0[acc.list[i].file].data)
        /\ acc.size = ReportedSize(hist.fs0, acc.list)

\* A and B equal with B newer, C different: B kept, A reported.
C4_Witness ==
    /\ pc = "returned_ok"
    /\ op.name = "find_duplicates"
    /\ Len(acc.groups) = 2
    /\ Len(acc.list) = 1
    /\ hist.fs0[acc.list[1].file].mtime < hist.fs0[acc.list[1].original].mtime
    /\ acc.size = SizeOf(hist.fs0[acc.list[1].file].data)
    /\ acc.size > 0

Removed == {p \in Under(hist.fs0) : ~Exists(fs, p)}

HasEntry(f, container, p, c) ==
    /\ IsFile(f, container)
    /\ f[container].data.zip
    /\ [name |-> p, data |-> c] \in SeqRange(f[container].data.entries)

\* C7: at every point of an archive_files call, each file that has been
\* removed from the tree has an entry in the container under its
\* root-relative path with its content, and a file that cannot be read into
\* the container is still in place as it was.
C7_DeleteAfterWrite ==
    (op.name = "archive_files" /\ hist.calls > 0) =>
        /\ \A p \in Removed : HasEntry(fs, op.arch, p, hist.fs0[p].data)
        /\ \A p \in Under(hist.fs0) \ {op.arch} :
              ~hist.fs0[p].perm => (Exists(fs, p) /\ fs[p] = hist.fs0[p])

C7_Witness ==
    /\ op.name = "archive_files"
    /\ pc = "returned_ok"
    /\ Removed # {}
    /\ \E p \in Under(hist.fs0) \ {op.arch} :
          /\ ~hist.fs0[p].perm
          /\ hist.fs0[p].mtime < acc.cutoff
          /\ Writable(fs, Parent(p))
          /\ Exists(fs, p)

\* C8: when archive_files returns, archived_files and the original size
\* cover exactly the files that were written to the container and removed
\* from the tree; a file whose reading, writing or removal failed is in
\* place and not counted.
C8_FailureAccounting ==
    (op.name = "archive_files" /\ pc = "returned_ok") =>
        /\ SeqRange(acc.list) = Removed
        /\ acc.size = SumSizes(hist.fs0, Removed)

\* The part of C8 that the code keeps: a file that could not be read into
\* the container is in place and not counted.
C8_UnwrittenNotCounted ==
    (op.name = "archive_files" /\ pc = "returned_ok") =>
        \A p \in Under(hist.fs0) \ {op.arch} :
            ~hist.fs0[p].perm => (Exists(fs, p) /\ p \notin SeqRange(acc.list))

\* The extract call follows an archive call that returned its report, with
\* nothing in between.
AfterArchive == op.name = "extract_archives" /\ hist.arc # NoArchive

\* <container stem>: the container's path without its extension.
StemOf(container) ==
    LET n == NameOf(container)
    IN Append(Parent(container), [base |-> n.base, tags |-> n.tags, ext |-> ""])

Restored(f) ==
    \A p \in SeqRange(hist.arc.files) :
        LET target == StemOf(hist.arc.path) \o p
        IN IsFile(f, target) /\ f[target].data = hist.arc.fs0[p].data

\* C6 as stated: after archive_files and then extract_archives, every
\* archived file (relative path p, content c) is found with content c at
\* <container stem>/p.
C6_RoundTrip ==
    (AfterArchive /\ pc = "returned_ok") => Restored(fs)

\* The step of extract_archives that expands the container the archive call
\* left, as it left it, and reports it as extracted.
ExpandsTheContainer ==
    /\ AfterArchive
    /\ pc = "walk"
    /\ IsFile(fs, hist.arc.path)
    /\ fs[hist.arc.path] = hist.fs0[hist.arc.path]
    /\ Len(acc'.list) = Len(acc.list) + 1
    /\ acc'.list[Len(acc'.list)].archive = hist.arc.path

\* C6: when extract_archives, run on the tree an archive_files call left,
\* expands the container of that call with success, then at the end of the
\* expansion every archived file (relative path p, content c) is found with
\* content c at <container stem>/p.
C6_RoundTripWhenExpanded ==
    [][ExpandsTheContainer => Restored(fs')]_vars

C6_Witness ==
    /\ AfterArchive
    /\ pc = "returned_ok"
    /\ Len(hist.arc.files) >= 2
    /\ \E i \in 1..Len(acc.list) : acc.list[i].archive = hist.arc.path
    /\ Restored(fs)

\* C11: in a real run of an organizer, a destination directory that cannot
\* be created is a recorded per-file error: the call goes on and returns an
\* ok report (no exception leaves it).
C11_MkdirFailureRecorded ==
    (op.name \in Organizers /\ ~op.flag /\ Ended /\ hist.calls > 0
        /\ Exists(hist.fs0, Root)) => pc = "returned_ok"

\* The container of an archive_files call could not be created.
CreationFailed ==
    /\ op.name = "archive_files"
    /\ hist.calls > 0
    /\ IsDir(hist.fs0, Root)
    /\ ~CanCreate(hist.fs0, op.arch)

\* C12: when the container cannot be created, archive_files returns the
\* failure envelope (no exception leaves the call, no success is reported)
\* and deletes no file.
C12_CreationFailureInBand ==
    (CreationFailed /\ Ended) => (pc = "returned_err" /\ fs = hist.fs0)

\* The part of C12 that the code keeps: nothing is deleted and no success is
\* reported.
C12_NothingDeleted ==
    CreationFailed => (pc # "returned_ok" /\ fs = hist.fs0)

(***************************************************************************)
(* Two calls on the same root.  The tool wrappers run every call in its    *)
(* own worker thread (asyncio.to_thread), so the steps of another call     *)
(* fall between, and inside, the steps of this one.  What the other call   *)
(* does to a file is to delete it or to move it to its category folder; it *)
(* may do so before this call tests item.is_file(), or after that test and *)
(* before the next use of the file.                                        *)
(***************************************************************************)
\* The trees the other call can leave when it takes the file p.
OtherCallStep(f, p) ==
    LET target_dir == Child(Root, Nm(get_category(NameOf(p)), ""))
        made == Mkdir(f, target_dir)
        target == Child(target_dir, FreeName(made, target_dir, NameOf(p), 0))
    IN {Remove(f, p)} \cup
       (IF Parent(p) # target_dir /\ CanMkdir(f, target_dir)
        THEN {ShutilMove(made, p, target).fs} ELSE {})

\* The files this call has enumerated and not yet gone through.
Enumerated ==
    IF pc = "walk" THEN {p \in walk.todo : IsFile(fs, p)}
    ELSE IF pc = "groups"
    THEN {p \in Files(fs) :
             \E g \in (acc.idx + 1)..Len(acc.groups) :
                \E i \in 1..Len(acc.groups[g].files) : acc.groups[g].files[i] = p}
    ELSE {}

\* The other call takes such a file between two steps of this call.
OtherCallActs ==
    /\ \E p \in Enumerated : fs' \in OtherCallStep(fs, p)
    /\ UNCHANGED <<now, pc, op, walk, acc, hist, sw>>

\* organize_by_type_sync: the file is gone after item.is_file(); in a real
\* run target_dir.mkdir is done and shutil.move raises inside the try.
OrganizeByTypeVisitVanished ==
    /\ pc = "walk"
    /\ op.name = "organize_by_type"
    /\ \E item \in walk.todo :
          /\ IsFile(fs, item)
          /\ LET target_dir == Child(Root, Nm(get_category(NameOf(item)), ""))
             IN /\ ~AlreadyIn(item, target_dir)
                /\ \E f1 \in OtherCallStep(fs, item) :
                      IF DryRun(op)
                      THEN /\ acc' = [acc EXCEPT !.moved =
                                         Append(@, [folder |-> target_dir,
                                                    name |-> NameOf(item)])]
                           /\ fs' = f1
                           /\ walk' = Yielded(walk, item)
                           /\ UNCHANGED <<now, pc, op, hist, sw>>
                      ELSE IF ~CanMkdir(f1, target_dir)
                      THEN Raised(f1) /\ UNCHANGED <<op, hist, sw>>
                      ELSE /\ acc' = [acc EXCEPT !.errors = Append(@, NameOf(item))]
                           /\ fs' = Mkdir(f1, target_dir)
                           /\ walk' = Yielded(walk, item)
                           /\ UNCHANGED <<now, pc, op, hist, sw>>

\* organize_by_date_sync: item.stat() (line 174) is outside every try.
OrganizeByDateVisitVanished ==
    /\ pc = "walk"
    /\ op.name = "organize_by_date"
    /\ \E item \in walk.todo :
          /\ IsFile(fs, item)
          /\ \E f1 \in OtherCallStep(fs, item) : Raised(f1)
    /\ UNCHANGED <<op, hist, sw>>

\* find_duplicates_sync, first loop: get_file_hash raises inside the try.
FindDuplicatesVisitVanished ==
    /\ pc = "walk"
    /\ op.name = "find_duplicates"
    /\ \E item \in walk.todo :
          /\ IsFile(fs, item)
          /\ fs' \in OtherCallStep(fs, item)
          /\ walk' = Yielded(walk, item)
    /\ UNCHANGED <<now, pc, op, acc, hist, sw>>

\* find_duplicates_sync, second loop: files.sort calls x.stat() on every
\* file of a group of two or more (line 99), outside every try.
FindDuplicatesGroupRace ==
    /\ pc = "groups"
    /\ acc.idx < Len(acc.groups)
    /\ LET files == acc.groups[acc.idx + 1].files
       IN IF Len(files) > 1 /\ \E i \in 1..Len(files) : ~Exists(fs, files[i])
          THEN Raised(fs) /\ UNCHANGED <<op, hist, sw>>
          ELSE FindDuplicatesGroup

\* clean_old_files_sync: item.stat() (line 127) is outside every try.
CleanOldFilesVisitVanished ==
    /\ pc = "walk"
    /\ op.name = "clean_old_files"
    /\ \E item \in walk.todo :
          /\ IsFile(fs, item)
          /\ \E f1 \in OtherCallStep(fs, item) : Raised(f1)
    /\ UNCHANGED <<op, hist, sw>>

RaceSlots ==
    { <<Nm("a", ".txt")>>, <<Nm("b", ".txt")>>, Child(Sub, Nm("a", ".txt")) }

RaceAttrs ==
    { [data |-> Bytes("x"), mtime |-> 0, perm |-> TRUE],
      [data |-> Bytes("x"), mtime |-> MaxTime, perm |-> TRUE] }

InitRace ==
    /\ IsTree(fs, RaceSlots, RaceAttrs, {})
    /\ InitCall(1)

NextRace ==
    \/ \E dry_run \in BOOLEAN : OrganizeByTypeBegin(dry_run)
    \/ \E dry_run \in BOOLEAN : OrganizeByDateBegin(dry_run)
    \/ OrganizeByTypeVisit
    \/ OrganizeByTypeVisitVanished
    \/ OrganizeByDateVisit
    \/ OrganizeByDateVisitVanished
    \/ \E delete_duplicates \in BOOLEAN : FindDuplicatesBegin(delete_duplicates)
    \/ FindDuplicatesVisit
    \/ FindDuplicatesVisitVanished
    \/ FindDuplicatesScanDone
    \/ FindDuplicatesGroupRace
    \/ FindDuplicatesReturn
    \/ \E days_old \in 0..MaxDays, delete \in BOOLEAN : CleanOldFilesBegin(days_old, delete)
    \/ CleanOldFilesVisit
    \/ CleanOldFilesVisitVanished
    \/ NextDir
    \/ Return
    \/ OtherCallActs

SpecRace == InitRace /\ [][NextRace]_vars

\* C13: when another call moves or deletes a file that this call has
\* enumerated, before this call stats, hashes, sorts or moves it, the file
\* is skipped and this call still completes and returns an ok report.
C13_ToleratesDisappearance ==
    (hist.calls > 0 /\ Ended) => pc = "returned_ok"

\* The part of C13 that the code keeps: organize_by_type_sync completes,
\* its only use of the file being inside the try.
C13_TypeOrganizerCompletes ==
    op.name = "organize_by_type" => pc # "raised"

\* C14: in a real run of organize_by_type, the entry recorded in moved_files
\* for a moved file is the name the file has on disk after the move, also
\* when collision resolution renamed it (stem_k.ext).
C14_ReportNamesFinalName ==
    [][(op.name = "organize_by_type" /\ ~op.flag /\ pc = "walk"
          /\ Len(acc'.moved) = Len(acc.moved) + 1)
        => LET e == acc'.moved[Len(acc'.moved)]
           IN Child(e.folder, e.name) \in Files(fs') \ Files(fs)]_vars

\* The part of C14 that the code keeps: every name listed under a category
\* exists in root/Category (it may be another file than the one moved).
C14_ListedNamesExist ==
    (op.name = "organize_by_type" /\ ~op.flag /\ pc \in {"walk", "returned_ok"}) =>
        \A i \in 1..Len(acc.moved) :
            Exists(fs, Child(acc.moved[i].folder, acc.moved[i].name))

(***************************************************************************)
(* The classifier on its own: get_category applied to a file name whose    *)
(* extension is any extension of the table, any capital spelling of one,   *)
(* an unlisted extension or none.                                          *)
(***************************************************************************)
Extensions ==
    {pr[1] : pr \in LetterCase} \cup {pr[2] : pr \in LetterCase} \cup {""}

InitClassify ==
    /\ fs = MissingRoot
    /\ now = MaxTime
    /\ pc = "idle"
    /\ \E e \in Extensions : op = Call("get_category", FALSE, 0, <<Nm("f", e)>>)
    /\ walk = NoWalk
    /\ acc = EmptyAcc
    /\ hist = [fs0 |-> fs, prev |-> [name |-> "none", flag |-> FALSE, out |-> "none"],
               arc |-> NoArchive, calls |-> 0, limit |-> 1]
    /\ sw = NoService

Classify ==
    /\ pc = "idle"
    /\ op.name = "get_category"
    /\ pc' = "returned_ok"
    /\ acc' = [EmptyAcc EXCEPT !.list = <<get_category(NameOf(op.arch))>>]
    /\ UNCHANGED <<fs, now, op, walk, hist, sw>>

NextClassify == Classify

SpecClassify == InitClassify /\ [][NextClassify]_vars

\* The eight categories.
Categories ==
    {"Images", "Documents", "Videos", "Audio", "Archives", "Code", "Programs", "Other"}

\* The lower-case spelling of an extension, read from the table of spellings.
Spelled(e) == {pr[1] : pr \in {q \in LetterCase : q[2] = e}} \cup
              (IF \E q \in LetterCase : q[2] = e THEN {} ELSE {e})

ListedIn(e) == {i \in 1..Len(FILE_CATEGORIES) : Spelled(e) \cap FILE_CATEGORIES[i][2] # {}}

\* C15: no extension is listed under two categories; get_category returns
\* the category that lists the extension, whatever the letter case of the
\* file's extension, 'Other' for an unlisted or missing extension, and
\* always one of the eight categories.
C15_ClassifierTotal ==
    /\ {FILE_CATEGORIES[i][1] : i \in 1..Len(FILE_CATEGORIES)} = Categories
    /\ \A i, j \in 1..Len(FILE_CATEGORIES) :
          i # j => FILE_CATEGORIES[i][2] \cap FILE_CATEGORIES[j][2] = {}
    /\ (op.name = "get_category" /\ pc = "returned_ok") =>
          LET e == NameOf(op.arch).ext
              c == acc.list[1]
          IN /\ c \in Categories
             /\ \A i \in ListedIn(e) : c = FILE_CATEGORIES[i][1]
             /\ ListedIn(e) = {} => c = "Other"

C15_Witness ==
    /\ op.name = "get_category"
    /\ pc = "returned_ok"
    /\ NameOf(op.arch).ext = ".PNG"
    /\ acc.list = <<"Images">>

(***************************************************************************)
(* extract_archives_sync on trees with several containers: a readable zip, *)
(* a file named .zip that is not a zip, an unreadable one, a regular file  *)
(* in the place of an extract directory, an extract directory that exists  *)
(* and holds a file named like a member, and a read-only directory.        *)
(***************************************************************************)
ExtractSlots ==
    { <<Nm("bad", ".zip")>>, <<Nm("ok", ".zip")>>, <<Nm("ok", "")>>,
      Child(Sub, Nm("in", ".ZIP")), Child(<<Nm("ok", "")>>, Nm("m", ".txt")) }

ExtractAttrs ==
    { [data |-> Zip(<<[name |-> <<Nm("m", ".txt")>>, data |-> Bytes("y")]>>),
       mtime |-> 0, perm |-> TRUE],
      [data |-> Zip(<<[name |-> <<Nm("m", ".txt")>>, data |-> Bytes("y")]>>),
       mtime |-> 0, perm |-> FALSE],
      [data |-> Bytes("x"), mtime |-> 0, perm |-> TRUE] }

InitExtract ==
    /\ IsTree(fs, ExtractSlots, ExtractAttrs, {Sub})
    /\ InitCall(MaxCalls)

NextExtract ==
    \/ \E delete_after \in BOOLEAN : ExtractArchivesBegin(delete_after)
    \/ ExtractArchivesVisit
    \/ NextDir
    \/ Return

SpecExtract == InitExtract /\ [][NextExtract]_vars

\* The containers in the tree when the call began, and those the call has
\* reported as extracted.
ContainersAtStart == {p \in Under(hist.fs0) : IsContainerName(NameOf(p))}

ReportedExtracted == {acc.list[i].archive : i \in 1..Len(acc.list)}

\* C16: in extract_archives, a container whose expansion fails is recorded
\* in errors, is never deleted and does not stop the call, which goes
\* through every container and returns its report; a container is removed
\* only with delete_after and only after its expansion succeeded.
C16_ExtractorIsolation ==
    (op.name = "extract_archives" /\ hist.calls > 0) =>
        /\ pc # "raised"
        /\ \A p \in ContainersAtStart :
              ~Exists(fs, p) => (op.flag /\ p \in ReportedExtracted)
        /\ pc = "returned_ok" =>
              \A p \in ContainersAtStart :
                  \/ p \in ReportedExtracted
                  \/ NameOf(p) \in SeqRange(acc.errors) /\ Exists(fs, p)

C16_Witness ==
    /\ op.name = "extract_archives"
    /\ op.flag
    /\ pc = "returned_ok"
    /\ \E p, q \in ContainersAtStart :
          /\ NameOf(p) \in SeqRange(acc.errors)
          /\ p \notin ReportedExtracted
          /\ Exists(fs, p)
          /\ q \in ReportedExtracted
          /\ ~Exists(fs, q)

\* The files that are in some group of file_hashes.
Grouped ==
    UNION {SeqRange(acc.groups[g].files) : g \in 1..Len(acc.groups)}

\* A file the call reported for deletion is gone exactly when delete was
\* asked for and its directory allows the removal.
RemovedIfPossible(p) ==
    Exists(fs, p) <=> ~(op.flag /\ Writable(hist.fs0, Parent(p)))

\* C17: find_duplicates skips a file whose digest cannot be computed (it
\* joins no group and is neither reported nor deleted), find_duplicates and
\* clean_old_files swallow a deletion that fails, and in both cases every
\* other file is still processed and the call returns its report.
C17_ScansSurviveFailures ==
    (op.name \in {"find_duplicates", "clean_old_files"} /\ hist.calls > 0) =>
        /\ pc # "raised"
        /\ (pc = "returned_ok" /\ op.name = "find_duplicates") =>
              /\ \A p \in Under(hist.fs0) \ Hashable(hist.fs0) :
                    /\ p \notin Grouped
                    /\ \A i \in 1..Len(acc.list) :
                          acc.list[i].file # p /\ acc.list[i].original # p
                    /\ Exists(fs, p) /\ fs[p] = hist.fs0[p]
              /\ Hashable(hist.fs0) \subseteq Grouped
              /\ \A i \in 1..Len(acc.list) : RemovedIfPossible(acc.list[i].file)
        /\ (pc = "returned_ok" /\ op.name = "clean_old_files") =>
              /\ Listed = {p \in Under(hist.fs0) :
                              hist.fs0[p].mtime < now - (op.days * DayUnits)}
              /\ \A p \in Listed : RemovedIfPossible(p)

C17_Witness ==
    /\ op.name = "find_duplicates"
    /\ op.flag
    /\ pc = "returned_ok"
    /\ Under(hist.fs0) \ Hashable(hist.fs0) # {}
    /\ \E i \in 1..Len(acc.list) : Exists(fs, acc.list[i].file)

(***************************************************************************)
(* The software service (src/services/software_service.py).  SoftwareService *)
(* keeps a database of known software (a class attribute, changed in       *)
(* place), a registry of installed software in memory, and the registry    *)
(* file software_registry.json.  The commands it runs and the file system  *)
(* under the registry file are the environment: a command exits with zero  *)
(* or not, or cannot be run; a write succeeds, or fails on open, or fails  *)
(* after open(path, 'w') has truncated the file.                           *)
(***************************************************************************)
MaxRequests == 2   \* tool calls made to the service in one behaviour

None == "None"

\* SOFTWARE_DATABASE: two of its eight entries with their latest_version;
\* the other six are handled by the same code.
SOFTWARE_DATABASE ==
    ("git" :> [latest_version |-> "2.43.0"]) @@ ("docker" :> [latest_version |-> "25.0.1"])

Software == DOMAIN SOFTWARE_DATABASE

latest_version(n) == SOFTWARE_DATABASE[n].latest_version

\* TASK_RECOMMENDATIONS: the task whose software is in the database above.
TASK_RECOMMENDATIONS == ("containerization" :> <<"docker", "git">>)

\* A version that a registry file written earlier may record.
OlderVersion == "1.0.0"

\* str.lower() and str.strip() on the strings the tools are called with.
LowerTable ==
    { <<" Git ", " git ">>, <<"DOCKER", "docker">>, <<" NoSuch", " nosuch">>,
      <<" Containerization", " containerization">>, <<"Gardening", "gardening">> }

StripTable ==
    { <<" git ", "git">>, <<" Git ", "Git">>, <<" nosuch", "nosuch">>,
      <<" NoSuch", "NoSuch">>, <<" containerization", "containerization">>,
      <<" Containerization", "Containerization">>, <<"  ", "">> }

Translate(table, s) ==
    IF \E pr \in table : pr[1] = s THEN (CHOOSE pr \in table : pr[1] = s)[2] ELSE s

str_lower(s) == Translate(LowerTable, s)

str_strip(s) == Translate(StripTable, s)

\* software_name = software_name.lower().strip()
Normalize(s) == str_strip(str_lower(s))

\* validate_software_name / validate_task_name: not s, or len(s.strip()) == 0.
\* (The tool wrappers of main.py reject the empty string with the same code.)
validate_software_name(s) == s # "" /\ str_strip(s) # ""

validate_task_name(s) == s # "" /\ str_strip(s) # ""

\* The names and tasks the tools are called with.
NameInputs == {"git", " Git ", "docker", "DOCKER", "nosuch", " NoSuch", "", "  "}

TaskInputs == {"containerization", " Containerization", "Gardening", "  "}

\* The registry's "installed_software" map and the registry file.
NoEntries == [n \in {} |-> None]

Entry(version, auto_update) == [version |-> version, auto_update |-> auto_update]

\* An uninstall that forgets to drop the entry.
KeepEntry(entries, n) == entries

\* del self.registry["installed_software"][software_name]
Del(entries, n) == [m \in DOMAIN entries \ {n} |-> entries[m]]

FileAbsent == [state |-> "absent", entries |-> NoEntries]

FileCorrupt == [state |-> "corrupt", entries |-> NoEntries]

FileOf(entries) == [state |-> "json", entries |-> entries]

\* _load_registry: {} when the file is absent or cannot be parsed.
load_registry(file) == IF file.state = "json" THEN file.entries ELSE NoEntries

\* The outcomes of open(REGISTRY_FILE, 'w') followed by json.dump.
SaveOutcomes == {"written", "open_failed", "dump_failed"}

WriteFile(file, entries, outcome) ==
    CASE outcome = "written" -> FileOf(entries)
      [] outcome = "open_failed" -> file
      [] OTHER -> FileCorrupt

\* _save_registry: except Exception: pass.  Nothing reaches the caller.
save_registry_raises(outcome) == FALSE

\* The database as the class defines it, and as an instance finds it.
ClassDatabase == [n \in Software |-> [installed |-> FALSE, current_version |-> None]]

\* __init__: load the registry, probe the system (_check_installed_software:
\* a probe that exits with zero marks the software installed and, if the
\* registry has no entry, adds one at the latest version; any other probe
\* marks it not installed), then copy every registry entry into the database.
Construct(db0, file, probes) ==
    LET loaded == load_registry(file)
        reg == [n \in DOMAIN loaded \cup probes |->
                    IF n \in DOMAIN loaded THEN loaded[n]
                    ELSE Entry(latest_version(n), FALSE)]
        db == [n \in Software |->
                    IF n \in DOMAIN reg
                    THEN [installed |-> TRUE, current_version |-> reg[n].version]
                    ELSE [installed |-> FALSE, current_version |-> db0[n].current_version]]
    IN [db |-> db, registry |-> reg]

\* The error codes of src/utils/errors.py.
INVALID_INPUT == "invalid_input"

\* A service that answers an unknown name with the code of a malformed one.
UnknownAsInvalid == INVALID_INPUT

SOFTWARE_NOT_FOUND == "software_not_found"

ALREADY_INSTALLED == "already_installed"

NOT_INSTALLED == "not_installed"

UP_TO_DATE == "up_to_date"

REGISTRY_ERROR == "registry_error"

\* if software_name not in self.SOFTWARE_DATABASE
InDatabase(n) == n \in Software

\* A check that finds nothing installed.
NeverInstalled(db, n) == FALSE

\* self.SOFTWARE_DATABASE[software_name]["installed"]
IsInstalled(db, n) == db[n].installed

\* How subprocess.run ends: exit status zero (for pip uninstall also
\* "Successfully uninstalled" in the output), another exit status, or an
\* exception (TimeoutExpired, the program is missing).
CommandOutcomes == {"zero", "nonzero", "raised"}

\* ToolResult(ok=..., error=ErrorInfo(code=...)) or ToolResult(ok=True, data=...)
Result(tool, arg, ok, code, data) ==
    [tool |-> tool, arg |-> arg, ok |-> ok, code |-> code, data |-> data]

NoResult == Result("none", "", TRUE, "none", None)

\* What the service holds before a call.
Snapshot == [db |-> sw.db, registry |-> sw.registry, file |-> sw.file, ran |-> sw.ran]

\* The state a call leaves: save is the outcome of the write it made, if any.
Service(db, registry, file, ran, result, save) ==
    [db |-> db, registry |-> registry, file |-> file, ran |-> ran,
     result |-> result, save |-> save, prev |-> Snapshot, calls |-> sw.calls + 1]

\* return ToolResult(ok=False, error=ErrorInfo(code=code, ...)) before
\* anything was touched.
Reject(tool, arg, code) ==
    sw' = Service(sw.db, sw.registry, sw.file, sw.ran,
                  Result(tool, arg, FALSE, code, None), "none")

\* The end of a call that changed the registry and saved it.  An exception
\* out of _save_registry would be caught by the caller's except Exception.
Saved(tool, arg, db, registry, ran, data, outcome) ==
    sw' = Service(db, registry, WriteFile(sw.file, registry, outcome), ran,
                  IF save_registry_raises(outcome)
                  THEN Result(tool, arg, FALSE, REGISTRY_ERROR, None)
                  ELSE Result(tool, arg, TRUE, "none", data),
                  outcome)

CanCall == sw.calls < MaxRequests

InstallSoftware(raw) ==
    /\ CanCall
    /\ LET tool == "install_software"
           n == Normalize(raw)
       IN IF ~validate_software_name(raw) THEN Reject(tool, raw, INVALID_INPUT)
          ELSE IF ~InDatabase(n) THEN Reject(tool, raw, SOFTWARE_NOT_FOUND)
          ELSE IF IsInstalled(sw.db, n) THEN Reject(tool, raw, ALREADY_INSTALLED)
          ELSE \E rc \in CommandOutcomes :
                LET ran == Append(sw.ran, <<"install", n>>)
                    version == latest_version(n)
                    db == [sw.db EXCEPT ![n] = [installed |-> TRUE,
                                                current_version |-> version]]
                    registry == Put(sw.registry, n, Entry(version, FALSE))
                IN IF rc = "zero"
                   THEN \E outcome \in SaveOutcomes :
                            Saved(tool, raw, db, registry, ran, version, outcome)
                   ELSE sw' = Service(sw.db, sw.registry, sw.file, ran,
                                      Result(tool, raw, FALSE, REGISTRY_ERROR, None),
                                      "none")
    /\ UNCHANGED fileVars

UninstallSoftware(raw) ==
    /\ CanCall
    /\ LET tool == "uninstall_software"
           n == Normalize(raw)
       IN IF ~validate_software_name(raw) THEN Reject(tool, raw, INVALID_INPUT)
          ELSE IF ~InDatabase(n) THEN Reject(tool, raw, SOFTWARE_NOT_FOUND)
          ELSE IF ~IsInstalled(sw.db, n) THEN Reject(tool, raw, NOT_INSTALLED)
          ELSE \E rc \in CommandOutcomes :
                LET ran == Append(sw.ran, <<"uninstall", n>>)
                    db == [sw.db EXCEPT ![n] = [installed |-> FALSE,
                                                current_version |-> None]]
                    registry == Del(sw.registry, n)
                IN IF rc = "zero"
                   THEN \E outcome \in SaveOutcomes :
                            Saved(tool, raw, db, registry, ran, None, outcome)
                   ELSE sw' = Service(sw.db, sw.registry, sw.file, ran,
                                      Result(tool, raw, FALSE, REGISTRY_ERROR, None),
                                      "none")
    /\ UNCHANGED fileVars

UpdateSoftware(raw) ==
    /\ CanCall
    /\ LET tool == "update_software"
           n == Normalize(raw)
       IN IF ~validate_software_name(raw) THEN Reject(tool, raw, INVALID_INPUT)
          ELSE IF ~InDatabase(n) THEN Reject(tool, raw, SOFTWARE_NOT_FOUND)
          ELSE IF ~IsInstalled(sw.db, n) THEN Reject(tool, raw, NOT_INSTALLED)
          ELSE IF sw.db[n].current_version = latest_version(n)
               THEN Reject(tool, raw, UP_TO_DATE)
          ELSE LET latest == latest_version(n)
                   db == [sw.db EXCEPT ![n].current_version = latest]
                   registry == IF n \in DOMAIN sw.registry
                               THEN [sw.registry EXCEPT ![n].version = latest]
                               ELSE sw.registry
               IN \E outcome \in SaveOutcomes :
                      Saved(tool, raw, db, registry, sw.ran, latest, outcome)
    /\ UNCHANGED fileVars

SetAutoUpdate(raw, enabled) ==
    /\ CanCall
    /\ LET tool == "set_auto_update"
           n == Normalize(raw)
       IN IF ~validate_software_name(raw) THEN Reject(tool, raw, INVALID_INPUT)
          ELSE IF ~InDatabase(n) THEN Reject(tool, raw, SOFTWARE_NOT_FOUND)
          ELSE IF ~IsInstalled(sw.db, n) THEN Reject(tool, raw, NOT_INSTALLED)
          ELSE IF n \in DOMAIN sw.registry
               THEN \E outcome \in SaveOutcomes :
                      Saved(tool, raw, sw.db,
                            [sw.registry EXCEPT ![n].auto_update = enabled],
                            sw.ran, enabled, outcome)
               ELSE Reject(tool, raw, REGISTRY_ERROR)
    /\ UNCHANGED fileVars

GetSoftwareInfo(raw) ==
    /\ CanCall
    /\ LET tool == "get_software_info"
           n == Normalize(raw)
       IN IF ~validate_software_name(raw) THEN Reject(tool, raw, INVALID_INPUT)
          ELSE IF ~InDatabase(n) THEN Reject(tool, raw, SOFTWARE_NOT_FOUND)
          ELSE sw' = Service(sw.db, sw.registry, sw.file, sw.ran,
                        Result(tool, raw, TRUE, "none",
                               [installed |-> sw.db[n].installed,
                                current_version |-> sw.db[n].current_version,
                                auto_update |-> IF n \in DOMAIN sw.registry
                                                THEN sw.registry[n].auto_update
                                                ELSE FALSE]),
                        "none")
    /\ UNCHANGED fileVars

GetRecommendations(raw) ==
    /\ CanCall
    /\ LET tool == "get_recommendations"
           task == Normalize(raw)
       IN IF ~validate_task_name(raw) THEN Reject(tool, raw, INVALID_INPUT)
          ELSE IF task \notin DOMAIN TASK_RECOMMENDATIONS
               THEN Reject(tool, raw, SOFTWARE_NOT_FOUND)
          ELSE sw' = Service(sw.db, sw.registry, sw.file, sw.ran,
                        Result(tool, raw, TRUE, "none", TASK_RECOMMENDATIONS[task]),
                        "none")
    /\ UNCHANGED fileVars

\* list_installed_software: the names whose installed flag is set.
ListInstalledSoftware ==
    /\ CanCall
    /\ sw' = Service(sw.db, sw.registry, sw.file, sw.ran,
                     Result("list_installed_software", "", TRUE, "none",
                            {n \in Software : sw.db[n].installed}),
                     "none")
    /\ UNCHANGED fileVars

\* check_updates: the installed names whose version is not the latest.
CheckUpdates ==
    /\ CanCall
    /\ sw' = Service(sw.db, sw.registry, sw.file, sw.ran,
                     Result("check_updates", "", TRUE, "none",
                            {n \in Software : sw.db[n].installed
                                /\ sw.db[n].current_version # latest_version(n)}),
                     "none")
    /\ UNCHANGED fileVars

\* The registry files an instance may find: none, an unreadable one, or one
\* written by an earlier run.
EntriesOver(names) ==
    [names -> {Entry(v, a) : v \in {OlderVersion, "latest"}, a \in BOOLEAN}]

AtLatest(entries) ==
    [n \in DOMAIN entries |->
        IF entries[n].version = "latest"
        THEN Entry(latest_version(n), entries[n].auto_update)
        ELSE entries[n]]

InitialFiles ==
    {FileAbsent, FileCorrupt}
        \cup {FileOf(AtLatest(e)) : e \in UNION {EntriesOver(s) : s \in SUBSET Software}}

\* The module-level software_service = SoftwareService() of main.py.
InitSoftware ==
    /\ fs = MissingRoot
    /\ now = MaxTime
    /\ pc = "idle"
    /\ op = NoCall
    /\ walk = NoWalk
    /\ acc = EmptyAcc
    /\ hist = [fs0 |-> fs, prev |-> [name |-> "none", flag |-> FALSE, out |-> "none"],
               arc |-> NoArchive, calls |-> 0, limit |-> 0]
    /\ \E file \in InitialFiles, probes \in SUBSET Software :
        LET made == Construct(ClassDatabase, file, probes)
            first == [db |-> made.db, registry |-> made.registry, file |-> file,
                      ran |-> <<>>]
        IN sw = [db |-> made.db, registry |-> made.registry, file |-> file,
                 ran |-> <<>>, result |-> NoResult, save |-> "none",
                 prev |-> first, calls |-> 0]

NextSoftware ==
    \/ \E raw \in NameInputs : InstallSoftware(raw)
    \/ \E raw \in NameInputs : UninstallSoftware(raw)
    \/ \E raw \in NameInputs : UpdateSoftware(raw)
    \/ \E raw \in NameInputs, enabled \in BOOLEAN : SetAutoUpdate(raw, enabled)
    \/ \E raw \in NameInputs : GetSoftwareInfo(raw)
    \/ \E raw \in TaskInputs : GetRecommendations(raw)
    \/ ListInstalledSoftware
    \/ CheckUpdates

SpecSoftware == InitSoftware /\ [][NextSoftware]_vars

(***************************************************************************)
(* Properties of the software service.                                     *)
(***************************************************************************)
NameTools ==
    {"install_software", "uninstall_software", "update_software", "set_auto_update",
     "get_software_info"}

Blank(s) == str_strip(s) = ""

\* The call that just returned changed nothing and ran no command.
NothingChanged ==
    /\ sw.db = sw.prev.db
    /\ sw.registry = sw.prev.registry
    /\ sw.file = sw.prev.file
    /\ sw.ran = sw.prev.ran

UnknownNameGiven ==
    /\ sw.result.tool \in NameTools
    /\ ~Blank(sw.result.arg)
    /\ Normalize(sw.result.arg) \notin Software

UnknownTaskGiven ==
    /\ sw.result.tool = "get_recommendations"
    /\ ~Blank(sw.result.arg)
    /\ Normalize(sw.result.arg) \notin DOMAIN TASK_RECOMMENDATIONS

\* C18: install, uninstall, update, set_auto_update and get_software_info
\* called with a (non-blank) name whose lower-cased, stripped form is not a
\* key of the software database, and get_recommendations called with an
\* unknown task, return ok=false with code software_not_found; the installed
\* flags, current versions, registry and registry file are as before the call
\* and no install or uninstall command was run.
C18_UnknownNamesRejected ==
    (sw.calls > 0 /\ (UnknownNameGiven \/ UnknownTaskGiven))
        => /\ ~sw.result.ok
           /\ sw.result.code = "software_not_found"
           /\ NothingChanged

\* An unknown name, spelled with capitals and a space, was given to
\* uninstall while some software was installed.
C18_Witness ==
    /\ sw.calls > 0
    /\ sw.result.tool = "uninstall_software"
    /\ sw.result.arg = " NoSuch"
    /\ sw.result.code = "software_not_found"
    /\ \E n \in Software : sw.db[n].installed

\* C19: install of a name that is already installed returns
\* already_installed, and uninstall, update and set_auto_update of a name that
\* is not installed return not_installed; such a call leaves every installed
\* flag, current version and registry entry unchanged.  A successful install
\* leaves the name installed, so a second install of it is rejected.
C19_InstalledStatePreconditions ==
    (sw.calls > 0 /\ ~Blank(sw.result.arg) /\ Normalize(sw.result.arg) \in Software)
        => LET n == Normalize(sw.result.arg)
               was == sw.prev.db[n].installed
           IN /\ (sw.result.tool = "install_software" /\ was)
                    => /\ ~sw.result.ok
                       /\ sw.result.code = "already_installed"
                       /\ NothingChanged
              /\ (sw.result.tool \in {"uninstall_software", "update_software",
                                      "set_auto_update"} /\ ~was)
                    => /\ ~sw.result.ok
                       /\ sw.result.code = "not_installed"
                       /\ NothingChanged
              /\ (sw.result.tool = "install_software" /\ sw.result.ok)
                    => sw.db[n].installed

\* git was not installed, an install command for it was run, and the next
\* install of it, spelled differently, was rejected as already installed.
C19_Witness ==
    /\ sw.calls = 2
    /\ sw.ran = << <<"install", "git">> >>
    /\ sw.result.tool = "install_software"
    /\ sw.result.arg = " Git "
    /\ sw.result.code = "already_installed"

\* C20: when the write of the registry file fails during install, uninstall,
\* update or set_auto_update, the tool returns ok=false with code
\* registry_error.
C20_SaveFailureReported ==
    (sw.calls > 0 /\ sw.save \in {"open_failed", "dump_failed"})
        => /\ ~sw.result.ok
           /\ sw.result.code = "registry_error"

\* What does hold: a failed write leaves the file without the change, and the
\* call is reported as successful all the same.
C20_SaveFailureSwallowed ==
    (sw.calls > 0 /\ sw.save \in {"open_failed", "dump_failed"})
        => /\ sw.result.ok
           /\ sw.file \in {sw.prev.file, FileCorrupt}

(***************************************************************************)
(* More than one instance.  SOFTWARE_DATABASE is a class attribute: an     *)
(* instance constructed later in the same process starts from the flags    *)
(* and versions the earlier instances left, and only a new process starts  *)
(* from the database as the class defines it.  The calls that follow are   *)
(* made to the newest instance.                                            *)
(***************************************************************************)
Constructed(db0, probes) ==
    LET made == Construct(db0, sw.file, probes)
    IN sw' = Service(made.db, made.registry, sw.file, sw.ran,
                     Result("__init__", "", TRUE, "none", None), "none")

\* SoftwareService() once more in the running process.
NewInstance ==
    /\ CanCall
    /\ \E probes \in SUBSET Software : Constructed(sw.db, probes)
    /\ UNCHANGED fileVars

\* The server is stopped and started: main.py is imported by a new process.
Restart ==
    /\ CanCall
    /\ \E probes \in SUBSET Software : Constructed(ClassDatabase, probes)
    /\ UNCHANGED fileVars

NextInstances ==
    \/ NextSoftware
    \/ NewInstance
    \/ Restart

SpecInstances == InitSoftware /\ [][NextInstances]_vars

\* C21: whenever get_software_info reports installed false for a software,
\* it reports current_version None and auto_update false, in every state
\* reached by constructing instances and calling the tools.
C21_NotInstalledHasNoVersion ==
    (sw.calls > 0 /\ sw.result.tool = "get_software_info" /\ sw.result.ok
        /\ ~sw.result.data.installed)
        => /\ sw.result.data.current_version = None
           /\ ~sw.result.data.auto_update

\* What does hold: the instance asked has no registry entry for a software
\* it reports as not installed, so auto_update is reported false.
C21_NotInstalledNoAutoUpdate ==
    (sw.calls > 0 /\ sw.result.tool = "get_software_info" /\ sw.result.ok
        /\ ~sw.result.data.installed)
        => ~sw.result.data.auto_update

(***************************************************************************)
(* The collision rule of the organizers.                                   *)
(***************************************************************************)
\* The step of an organizer that moved one file: the report grew by one.
MovedOne ==
    /\ op.name \in Organizers
    /\ ~op.flag
    /\ pc = "walk"
    /\ Len(acc'.moved) = Len(acc.moved) + 1

\* C22: a moved file keeps its name stem.ext when the destination directory
\* holds nothing of that name; otherwise it is stored as stem_k.ext with k
\* the smallest integer >= 1 such that stem_k.ext did not exist there.
C22_CollisionNaming ==
    [][MovedOne =>
        LET e == acc'.moved[Len(acc'.moved)]
            taken(n) == Exists(fs, Child(e.folder, n))
        IN \E t \in Files(fs') \ Files(fs) :
              /\ Parent(t) = e.folder
              /\ IF ~taken(e.name)
                 THEN NameOf(t) = e.name
                 ELSE \E k \in 1..(Cardinality(DOMAIN fs) + 1) :
                        /\ NameOf(t) = WithCounter(e.name, k)
                        /\ \A j \in 1..(k - 1) : taken(WithCounter(e.name, j))]_vars

\* A file was stored under the second counter: a.png and a_1.png were taken.
C22_Witness ==
    /\ op.name \in Organizers
    /\ ~op.flag
    /\ \E i \in 1..Len(acc.moved) :
          /\ Child(acc.moved[i].folder, WithCounter(acc.moved[i].name, 2))
                \in Files(fs) \ Files(hist.fs0)
          /\ Child(acc.moved[i].folder, acc.moved[i].name) \in Files(hist.fs0)
          /\ Child(acc.moved[i].folder, WithCounter(acc.moved[i].name, 1))
                \in Files(hist.fs0)

(***************************************************************************)
(* Dry run against real run.                                               *)
(***************************************************************************)
\* The report entry an organizer makes for file p of tree f.
EntryFor(name, f, p) ==
    [folder |-> IF name = "organize_by_type"
                THEN Child(Root, Nm(get_category(NameOf(p)), ""))
                ELSE Root \o DateFolder(f[p].mtime),
     name |-> NameOf(p)]

\* The files of tree f that are not in their target folder, as a bag of
\* report entries: what a walk over the unchanged tree reports.
Predicted(name, f) ==
    LET S == {p \in Under(f) : Parent(p) # EntryFor(name, f, p).folder}
        E == {EntryFor(name, f, p) : p \in S}
    IN [e \in E |-> Cardinality({p \in S : EntryFor(name, f, p) = e})]

\* moved_files as a bag of (folder, name).
ReportBag(moved) ==
    LET E == SeqRange(moved)
    IN [e \in E |-> Cardinality({i \in 1..Len(moved) : moved[i] = e})]

OrganizeRuns ==
    \/ OrganizeByTypeVisit
    \/ OrganizeByDateVisit
    \/ NextDir
    \/ Return

\* Trees for the termination check: names that collide up to the second
\* counter, and files whose target folder is created and then walked.
TerminateSlots ==
    { <<Nm("a", ".png")>>,
      Child(Sub, Nm("a", ".png")),
      Child(ImagesDir, Nm("a", ".png")),
      Child(ImagesDir, NmK("a", 1, ".png")) }

TerminateAttrs == { [data |-> Bytes("x"), mtime |-> 0, perm |-> TRUE] }

InitTerminate ==
    /\ IsTree(fs, TerminateSlots, TerminateAttrs, {})
    /\ InitCall(1)

FairOrganize == InitTerminate /\ [][NextOrganize]_vars /\ WF_vars(OrganizeRuns)

\* The counter in the name a file was stored under (0: the name was kept).
CounterOf(n, stored) ==
    IF stored = n THEN 0
    ELSE CHOOSE k \in 1..(Cardinality(DOMAIN fs) + 1) : stored = WithCounter(n, k)

\* C23: every organize call that walks a tree ends; the rename loop for one
\* file ends within (entries of the target directory + 1) candidate names;
\* and a file that the call moved is not moved again: every file moved was
\* in the tree when the call began.
C23_Termination ==
    /\ (pc = "walk") ~> Ended
    /\ [][MovedOne =>
            LET e == acc'.moved[Len(acc'.moved)]
            IN /\ \A t \in Files(fs') \ Files(fs) :
                    CounterOf(e.name, NameOf(t)) + 1
                        <= Cardinality(Children(fs, e.folder)) + 1
               /\ Files(fs) \ Files(fs') # {}
               /\ Files(fs) \ Files(fs') \subseteq Files(hist.fs0)]_vars

\* A real run ended after it moved a file into a folder it then walked: the
\* folder did not exist when the call began and holds two moved files.
C23_Witness ==
    /\ op.name \in Organizers
    /\ ~op.flag
    /\ pc = "returned_ok"
    /\ \E i \in 1..Len(acc.moved) :
          /\ ~Exists(hist.fs0, acc.moved[i].folder)
          /\ Cardinality(Children(fs, acc.moved[i].folder)) >= 2

(***************************************************************************)
(* Archives across calls.                                                  *)
(***************************************************************************)
\* Some container file of tree f holds p with content c.
Recoverable(f, p, c) == \E container \in Files(f) : HasEntry(f, container, p, c)

\* The files that the archive call before this one removed.
RemovedBefore == {p \in Under(hist.arc.fs0) : ~Exists(hist.fs0, p)}

\* C24: after archive calls on the same root, also when two of them resolve
\* to the same archive name, every file whose original one of the calls
\* deleted is an entry, with its content, of some container file under root.
C24_ArchivedStaysRecoverable ==
    (op.name = "archive_files" /\ pc \in {"walk", "returned_ok"}) =>
        /\ \A p \in Removed : Recoverable(fs, p, hist.fs0[p].data)
        /\ hist.arc # NoArchive =>
              \A p \in RemovedBefore : Recoverable(fs, p, hist.arc.fs0[p].data)

\* What does hold: the files removed by the running call are entries of its
\* container, and a second call under another name leaves the first
\* container as it was.
C24_OtherNameKeepsContainer ==
    (op.name = "archive_files" /\ pc \in {"walk", "returned_ok"}
        /\ hist.arc # NoArchive /\ hist.arc.path # op.arch
        /\ ~OlderThan(hist.fs0[hist.arc.path].mtime, acc.cutoff))
        => \A p \in RemovedBefore : Recoverable(fs, p, hist.arc.fs0[p].data)

(***************************************************************************)
(* What extraction does to the files that were there.                      *)
(***************************************************************************)
\* C25: extract_archives expands a container into a sibling directory named
\* after its stem that did not exist before, and every file that existed
\* when the call began is still there unaltered, except the containers it
\* removed with delete_after.
C25_ExtractionKeepsFiles ==
    (op.name = "extract_archives" /\ hist.calls > 0) =>
        /\ \A p \in Under(hist.fs0) :
              \/ Exists(fs, p) /\ fs[p] = hist.fs0[p]
              \/ op.flag /\ p \in ContainersAtStart /\ ~Exists(fs, p)
        /\ \A i \in 1..Len(acc.list) :
              /\ acc.list[i].extracted_to = StemOf(acc.list[i].archive)
              /\ ~Exists(hist.fs0, acc.list[i].extracted_to)

\* What does hold: a file is replaced only by a member of a container that
\* was expanded over it, and nothing but a container is removed.
C25_OnlyMembersReplaced ==
    (op.name = "extract_archives" /\ hist.calls > 0) =>
        \A p \in Under(hist.fs0) :
            \/ Exists(fs, p) /\ fs[p] = hist.fs0[p]
            \/ op.flag /\ p \in ContainersAtStart /\ ~Exists(fs, p)
            \/ /\ IsFile(fs, p)
               /\ \E i \in 1..Len(acc.list) : IsPrefix(acc.list[i].extracted_to, p)

(***************************************************************************)
(* find_duplicates_sync on trees that hold a symbolic link to one of their *)
(* files: is_file(), the digest, stat() and the size follow the link,      *)
(* unlink() removes the link itself.                                       *)
(***************************************************************************)
LinkSlots ==
    { <<Nm("m", ".txt")>>, Child(Sub, Nm("m", ".txt")), <<Nm("u", ".txt")>> }

LinkAttrs ==
    { [data |-> Bytes("x"), mtime |-> 0, perm |-> TRUE],
      [data |-> Bytes("x"), mtime |-> MaxTime, perm |-> TRUE],
      [data |-> Bytes("zz"), mtime |-> 0, perm |-> TRUE] }

LinkPath == <<Nm("l", ".txt")>>

InitLinks ==
    /\ \E S \in Choices(LinkSlots) : \E a \in [S -> LinkAttrs] : \E target \in S \cup {Root} :
          LET base == TreeOf(S, a, {})
          IN fs = IF target = Root THEN base ELSE Put(base, LinkPath, LinkNode(target))
    /\ InitCall(1)

NextLinks ==
    \/ \E delete_duplicates \in BOOLEAN : FindDuplicatesBegin(delete_duplicates)
    \/ FindDuplicatesVisit
    \/ FindDuplicatesScanDone
    \/ FindDuplicatesGroup
    \/ FindDuplicatesReturn
    \/ NextDir

SpecLinks == InitLinks /\ [][NextLinks]_vars

\* The regular files of tree f whose content has digest d.
Holding(f, d) == {p \in Under(f) : get_file_hash(f[p].data) = d}

DigestsBefore == {get_file_hash(hist.fs0[p].data) : p \in Hashable(hist.fs0)}

NoDeletionCanFail == \A p \in Under(hist.fs0) : Writable(hist.fs0, Parent(p))

\* C26: during and after find_duplicates with delete, every digest that a
\* readable file of the tree had when the call began is still the digest of
\* some file; a file whose digest no other file had is untouched; and when
\* the call has returned and no deletion could fail, every digest is held by
\* exactly one of the files that were hashed.
C26_NoContentLost ==
    (op.name = "find_duplicates" /\ op.flag /\ hist.calls > 0) =>
        /\ \A d \in DigestsBefore : Holding(fs, d) # {}
        /\ \A p \in Hashable(hist.fs0) :
              Cardinality(Holding(hist.fs0, get_file_hash(hist.fs0[p].data))) = 1
                  => (Exists(fs, p) /\ fs[p] = hist.fs0[p])
        /\ (pc = "returned_ok" /\ NoDeletionCanFail) =>
              \A d \in DigestsBefore :
                  Cardinality(Holding(fs, d) \cap Hashable(hist.fs0)) = 1

\* What does hold: a digest is lost only when a link to the file was kept in
\* its place.
C26_LostOnlyToALink ==
    (op.name = "find_duplicates" /\ op.flag /\ hist.calls > 0) =>
        \A d \in DigestsBefore :
            \/ Holding(fs, d) # {}
            \/ \E l \in DOMAIN fs : fs[l].kind = "link" /\ ~Exists(fs, fs[l].to)

(***************************************************************************)
(* The database and the registry of one instance.                          *)
(***************************************************************************)
\* C28: in every state of one SoftwareService, whatever calls were made and
\* however their commands and writes ended, a software is flagged installed
\* exactly when the registry has an entry for it, its current_version is then
\* the version of the entry, and set_auto_update never answers
\* registry_error.
C28_DatabaseMatchesRegistry ==
    /\ \A n \in Software :
          /\ sw.db[n].installed <=> n \in DOMAIN sw.registry
          /\ n \in DOMAIN sw.registry =>
                sw.db[n].current_version = sw.registry[n].version
    /\ ~(sw.result.tool = "set_auto_update" /\ sw.result.code = REGISTRY_ERROR)

\* An uninstall whose command succeeded was followed by a second call, with
\* some software still installed and some not.
C28_Witness ==
    /\ sw.calls = 2
    /\ Len(sw.ran) >= 1
    /\ sw.ran[1][1] = "uninstall"
    /\ sw.prev.db # sw.db \/ sw.result.tool = "set_auto_update"
    /\ \E n \in Software : sw.db[n].installed
    /\ \E n \in Software : ~sw.db[n].installed

(***************************************************************************)
(* Two install_software tool calls running in worker threads               *)
(* (asyncio.to_thread in main.py) on the one module-level service.  A      *)
(* thread can be preempted between the installed check, the install        *)
(* command and the block that records the installation.                    *)
(***************************************************************************)
Workers == {"w1", "w2"}

NoWritten == [n \in Software |-> 0]

Waiting == [at |-> "start", name |-> "", result |-> NoResult]

\* Both calls are about to enter install_software.
InitConcurrent ==
    /\ fs = MissingRoot
    /\ now = MaxTime
    /\ pc = "idle"
    /\ op = NoCall
    /\ walk = NoWalk
    /\ acc = EmptyAcc
    /\ hist = [fs0 |-> fs, prev |-> [name |-> "none", flag |-> FALSE, out |-> "none"],
               arc |-> NoArchive, calls |-> 0, limit |-> 0]
    /\ \E file \in InitialFiles, probes \in SUBSET Software :
        LET made == Construct(ClassDatabase, file, probes)
        IN sw = [db |-> made.db, registry |-> made.registry, file |-> file,
                 ran |-> <<>>, db0 |-> made.db, written |-> NoWritten,
                 worker |-> [w \in Workers |-> Waiting]]

Finish(w, name, result) ==
    [sw.worker EXCEPT ![w] = [at |-> "done", name |-> name, result |-> result]]

\* Validation and the three early returns of install_software.
InstallCheck(w, raw) ==
    /\ sw.worker[w].at = "start"
    /\ LET tool == "install_software"
           n == Normalize(raw)
           refused(code) == Finish(w, n, Result(tool, raw, FALSE, code, None))
       IN sw' = [sw EXCEPT !.worker =
                    IF ~validate_software_name(raw) THEN refused(INVALID_INPUT)
                    ELSE IF ~InDatabase(n) THEN refused(SOFTWARE_NOT_FOUND)
                    ELSE IF IsInstalled(sw.db, n) THEN refused(ALREADY_INSTALLED)
                    ELSE [sw.worker EXCEPT ![w] =
                            [at |-> "command", name |-> n,
                             result |-> Result(tool, raw, TRUE, "none", None)]]]
    /\ UNCHANGED fileVars

\* subprocess.run(cmd, ...): the thread waits for the child process.
InstallCommand(w) ==
    /\ sw.worker[w].at = "command"
    /\ \E rc \in CommandOutcomes :
        LET me == sw.worker[w]
        IN sw' = [sw EXCEPT
                    !.ran = Append(sw.ran, <<"install", me.name>>),
                    !.worker = IF rc = "zero"
                               THEN [sw.worker EXCEPT ![w].at = "store"]
                               ELSE Finish(w, me.name,
                                      [me.result EXCEPT !.ok = FALSE,
                                                        !.code = REGISTRY_ERROR])]
    /\ UNCHANGED fileVars

\* if result.returncode == 0: mark installed, write the entry with
\* installed_date = now and auto_update False, save, return ok.
InstallStore(w) ==
    /\ sw.worker[w].at = "store"
    /\ \E outcome \in SaveOutcomes :
        LET me == sw.worker[w]
            n == me.name
            version == latest_version(n)
            registry == Put(sw.registry, n, Entry(version, FALSE))
        IN sw' = [sw EXCEPT
                    !.db[n] = [installed |-> TRUE, current_version |-> version],
                    !.registry = registry,
                    !.file = WriteFile(sw.file, registry, outcome),
                    !.written[n] = sw.written[n] + 1,
                    !.worker = Finish(w, n, [me.result EXCEPT !.data = version])]
    /\ UNCHANGED fileVars

NextConcurrent ==
    \/ \E w \in Workers, raw \in NameInputs : InstallCheck(w, raw)
    \/ \E w \in Workers : InstallCommand(w)
    \/ \E w \in Workers : InstallStore(w)

SpecConcurrent == InitConcurrent /\ [][NextConcurrent]_vars

\* Both calls have returned, both named n, and no install command failed.
BothInstalled(n) ==
    \A w \in Workers : sw.worker[w].at = "done" /\ sw.worker[w].name = n
                          /\ sw.worker[w].result.code \notin {INVALID_INPUT, REGISTRY_ERROR}

Commands(n) == {i \in 1..Len(sw.ran) : sw.ran[i] = <<"install", n>>}

\* C29: when both calls named the same software, it was not installed when
\* they began and no install command failed, at most one returned ok and then the other returned
\* already_installed; the install command ran at most once and the entry
\* was written at most once.
C29_InstallsSerialized ==
    \A n \in Software :
        (BothInstalled(n) /\ ~sw.db0[n].installed) =>
            /\ Cardinality({w \in Workers : sw.worker[w].result.ok}) <= 1
            /\ \A w \in Workers : sw.worker[w].result.ok =>
                  \A v \in Workers \ {w} :
                      sw.worker[v].result.code = ALREADY_INSTALLED
            /\ Cardinality(Commands(n)) <= 1
            /\ sw.written[n] <= 1

\* What does hold: a call that returned ok left the software installed at
\* the latest version with an entry in the registry, and no entry is written
\* more often than the command succeeded.
C29_OkMeansInstalled ==
    \A w \in Workers :
        (sw.worker[w].at = "done" /\ sw.worker[w].result.ok) =>
            LET n == sw.worker[w].name
            IN /\ sw.db[n] = [installed |-> TRUE, current_version |-> latest_version(n)]
               /\ n \in DOMAIN sw.registry
               /\ sw.written[n] <= Cardinality(Commands(n))

(***************************************************************************)
(* What a restart keeps of the inventory.                                  *)
(***************************************************************************)
\* The last call was an uninstall of n that returned ok and wrote the file.
UninstalledAndSaved(n) ==
    /\ sw.result.tool = "uninstall_software"
    /\ sw.result.ok
    /\ sw.save = "written"
    /\ Normalize(sw.result.arg) = n

\* The registry file holds an entry for n.
Persisted(n) == sw.file.state = "json" /\ n \in DOMAIN sw.file.entries

\* The step constructs a service from the registry file: a restart, or one
\* more instance in the running process.
Reconstructed == sw'.result.tool = "__init__"

\* C30: a service constructed afterwards reports a software whose
\* uninstall had returned ok and been saved as not installed, with no
\* registry entry, whatever the start-up probes answer; and it reports a
\* software with a persisted entry as installed, with the persisted version
\* and auto_update setting.
C30_RestartKeepsInventory ==
    [][Reconstructed =>
        \A n \in Software :
            /\ UninstalledAndSaved(n) =>
                  (~sw'.db[n].installed /\ n \notin DOMAIN sw'.registry)
            /\ Persisted(n) =>
                  /\ sw'.db[n] = [installed |-> TRUE,
                                  current_version |-> sw.file.entries[n].version]
                  /\ n \in DOMAIN sw'.registry
                  /\ sw'.registry[n] = sw.file.entries[n]]_vars

\* What does hold: the persisted half, and the uninstalled software stays
\* uninstalled when its start-up probe fails; when the probe succeeds it is
\* back, installed at the latest version with auto_update off.
C30_PersistedSurvivesRestart ==
    [][Reconstructed =>
        \A n \in Software :
            /\ UninstalledAndSaved(n) =>
                  \/ (~sw'.db[n].installed /\ n \notin DOMAIN sw'.registry)
                  \/ /\ sw'.db[n] = [installed |-> TRUE,
                                     current_version |-> latest_version(n)]
                     /\ sw'.registry[n] = Entry(latest_version(n), FALSE)
            /\ Persisted(n) =>
                  /\ sw'.db[n] = [installed |-> TRUE,
                                  current_version |-> sw.file.entries[n].version]
                  /\ n \in DOMAIN sw'.registry
                  /\ sw'.registry[n] = sw.file.entries[n]]_vars

====
